---- MODULE Spec2Model ----
(***************************************************************************)
(* VoiceType (speek_to_text_linux): the session controller of the GUI      *)
(* application (cmd/voicetype-gui/main.go) and its single-instance         *)
(* coordinator, as state machines.                                         *)
(*                                                                         *)
(* Spec      : one active instance; its toggle sources, the capture        *)
(*             device, the transcription/delivery goroutine.               *)
(* SpecCoord : several invocations of main() racing on the PID file.       *)
(***************************************************************************)
EXTENDS Integers, Sequences, FiniteSets, Bags, TLC

(***************************************************************************)
(* Program constants and model bounds                                      *)
(***************************************************************************)

\* 600*time.Millisecond, the debounce window of toggleRecording
DebounceMs == 600

\* granularity of the model clock, in milliseconds
TickMs == 300

\* number of processing goroutines alive at once
MaxProc == 1

\* longest transcription text returned by the client
MaxTextLen == 1

\* number of invocations of the program (their process ids are 1, 2, ...)
MaxInvocations == 2

\* 400*time.Millisecond, the guard interval of pollKeyPressX11
GuardMs == 400

\* 40*time.Millisecond, the sleep between two samples of the key state
PollMs == 40

\* the xinput query of one sample takes up to MaxQuery steps of QueryStepMs
QueryStepMs == 40
MaxQuery == 1

\* number of dispatched presses that are counted
MaxPresses == 2

(***************************************************************************)
(* Threads of the active instance                                          *)
(***************************************************************************)

Main == 0
SigHandler == 1
HotkeyCb == 2
Callbacks == {HotkeyCb}
Togglers == {SigHandler} \cup Callbacks
Threads == {Main} \cup Togglers

\* the goroutine of time.AfterFunc and the processing goroutine
Watchdog == 3
Worker == 4
LockThreads == Threads \cup {Watchdog, Worker}
Nobody == -1
Min(a, b) == IF a < b THEN a ELSE b

\* the signals main() registers with signal.Notify; SIGINT shares the case of
\* SIGTERM in the handler and is not told apart from it here
Signals == {"SIGUSR1", "SIGTERM"}

\* typed failures of the transcription client
TranscribeErrors == {"rate-limit", "network"}

Chars == {" ", "a"}

RECURSIVE SeqsUpTo(_)
SeqsUpTo(n) ==
  IF n = 0 THEN {<<>>}
  ELSE LET S == SeqsUpTo(n - 1)
       IN S \cup {Append(s, c) : s \in {x \in S : Len(x) = n - 1}, c \in Chars}

Texts == SeqsUpTo(MaxTextLen)

\* strings.TrimSpace
RECURSIVE TrimLeft(_)
TrimLeft(s) ==
  IF s = <<>> THEN s
  ELSE IF Head(s) = " " THEN TrimLeft(Tail(s)) ELSE s

RECURSIVE TrimRight(_)
TrimRight(s) ==
  IF s = <<>> THEN s
  ELSE IF s[Len(s)] = " " THEN TrimRight(SubSeq(s, 1, Len(s) - 1)) ELSE s

\* a TrimSpace that trims nothing
TrimSpaceIdentity(s) == s

TrimSpace(s) == TrimRight(TrimLeft(s))

VARIABLES
  pc,            \* position of each thread of the active instance
  sinceToggle,   \* time.Since(app.lastToggle), saturating at DebounceMs
  isRecording,   \* app.isRecording
  isProcessing,  \* app.isProcessing
  sIsRecording,  \* audio.System.isRecording
  audioBuffer,   \* audio.System.audioBuffer: "empty" (len 0) or "data"
  audioData,     \* per thread: the slice returned by StopRecording, likewise
  err,           \* per thread: error returned by StopRecording
  sigChan,       \* buffered channel of capacity 1 fed by signal.Notify
  quit,          \* app.a.Quit() has been handed to the UI thread
  proc,          \* bag of the processing goroutines spawned by stopRecording
  watchdog       \* the function of time.AfterFunc(60*time.Second, ...) has run

\* the single-instance coordinator: the invocations of main() and the PID file
VARIABLES
  cpc,           \* position of each invocation in main()
  mode,          \* its control flag: "plain", "toggle" (--toggle), "stop" (--stop)
  pidFile,       \* content of voicetype-gui.pid: <<>> when absent, <<pid>>
  oldPid,        \* per invocation: the pid parsed by fmt.Sscanf (0: none)
  wrote,         \* per invocation: it has written the PID file
  sent,          \* per invocation: the signal it sent, its target, the result
  exitCode,      \* per invocation: -1 while it has not exited
  sigs           \* per invocation: signals its handler has received

\* the delivery engine: one call of typing.System.TypeText
VARIABLES
  dpc,           \* position in TypeText: "idle", the command about to run, "done"
  dver,          \* which TypeText runs: "multi" (lines 23-78), "separate" (231-304)
  denv,          \* the tools exec.LookPath finds, and WAYLAND_DISPLAY
  dtext,         \* the text argument
  denter,        \* the pressEnter argument
  clipboard,     \* content of the general (Ctrl+C/Ctrl+V) clipboard
  primary,       \* content of the PRIMARY selection
  caret,         \* what has been inserted at the focused caret, in order
  dlog,          \* the external commands attempted, in order, with their results
  mainExpired,   \* the deadline of tCtx (TypeText) has passed
  setExpired,    \* the deadline of tCtx (SetPrimarySelection) has passed
  dret           \* what TypeText returned: "none" (running), "nil", "error"

deliveryVars == <<dpc, dver, denv, dtext, denter, clipboard, primary, caret,
                  dlog, mainExpired, setExpired, dret>>

\* the hotkey detector: Listener.Initialize and its polling goroutines
VARIABLES
  hpc,           \* pollKeyPressX11: "none", "setup" (started), "poll" (in the
                 \* loop), "stopped" (returned after stopChan was closed)
  hkSince,       \* time.Since(lastToggle) of the loop, saturating above GuardMs
  isPressed,     \* the loop's isPressed
  presses,       \* number of firePress calls, saturating at MaxPresses
  lastGap,       \* time.Since(lastToggle) read at the last firePress (-1: none)
  listener,      \* ret: what Initialize returned ("none": not called yet);
                 \* generic, wayland: position of pollKeyPressGeneric and of
                 \* pollKeyPressWayland; closed: stopChan is closed
  path,          \* the tools exec.LookPath finds at this moment
  hcfg,          \* of pollKeyPressX11 before its loop: what resolveKeycodes
                 \* returned (resCtrl, resSpace), the codes the loop uses
                 \* (ctrlCodes, spaceCodes), warned: the warning was logged
  hsample        \* the last sample of the loop: down, the key codes xinput
                 \* reported down; chord, its currentlyDown; fired, firePress
                 \* was called

hotkeyVars == <<hpc, hkSince, isPressed, presses, lastGap, listener, path,
                hcfg, hsample>>

\* the session mutex app.mu and the code that takes it
VARIABLES
  mu,            \* the thread that holds app.mu, or Nobody
  lpc            \* per thread, the line of main.go it is about to execute

lockVars == <<mu, lpc>>

\* cancellation: app.ctx and the calls of the processing goroutine that
\* leave the process
VARIABLES
  cancelled,     \* app.cancel() has been called
  tCtxExpired,   \* the deadline of TypeText's tCtx has passed
  extcall        \* stage: the entry of ExternalCalls the goroutine has begun
                 \* last (0: none yet); active: it has not returned; hung: it
                 \* would not return by itself; result: what it returned

cancelVars == <<cancelled, tCtxExpired, extcall>>

\* configuration: what config.Load reads and what it returns
VARIABLES
  conf           \* env: the environment variables; file: the config file;
                 \* ret: done, cfg and err of the Load of this environment
                 \* and file (done is FALSE until Load has run on them)

configVars == <<conf>>

\* input focus around the delivery (main.go lines 860-879)
VARIABLES
  focus          \* pc: where the processing goroutine is; active: the window
                 \* that holds the input focus; before: the window that held
                 \* it when the tool's window took it ("" if it never did);
                 \* visible: the tool's window is shown; prevWindowID: what
                 \* GetActiveWindowID returned; activated: the window
                 \* ActivateWindow gave the focus to ("" if none)

focusVars == <<focus>>

\* the path of a signal through the active instance (main.go lines 668-682)
VARIABLES
  sg             \* chan: the one-slot channel sigChan; hpc: the handler
                 \* goroutine waits in "recv" or is inside toggleRecording
                 \* ("toggle"); delivered: a stop signal has been delivered to
                 \* the process; recording: the session records; quit:
                 \* app.a.Quit() was called; exited: main has returned;
                 \* pidFile: the PID file exists; n: signals delivered so far

signalVars == <<sg>>

\* keyboard device resolution (Listener.findKeyboardID)
VARIABLES
  kb             \* devices: the devices `xinput list` prints, in order; done:
                 \* findKeyboardID has returned; id: what it returned

keyboardVars == <<kb>>

\* the capture (audio.System): the fields of the System, the arecord
\* streams and the readAudio goroutines
VARIABLES
  au             \* isRecording, audioBuffer (each chunk is the number of the
                 \* recording whose stream it was read from), stdout (the
                 \* recording s.stdout belongs to) and open (that pipe is not
                 \* closed) are the System's; rec: recordings started so far;
                 \* reader: per recording, where its readAudio goroutine is,
                 \* the stream its Read is on and whether Read failed; cpc: the caller is idle or
                 \* inside StopRecording; result: the chunks StopRecording
                 \* returned last; handed: they were handed out and no
                 \* recording has started since

audioVars == <<au>>

\* the shutdown of the listener (Listener.Close) and its polling loop, with
\* the loop's stop test and its sample as separate steps
VARIABLES
  cl             \* stopChan: "nil" before Initialize, then "open", "closed";
                 \* loop: the polling goroutine ("none", at its "select", in
                 \* its "sample", "exited") and kind: which loop it runs;
                 \* closer: per calling goroutine, where it is in Close();
                 \* calls: calls of Close so far; returned: a Close has
                 \* returned; late: a press was dispatched after that;
                 \* panicked: the process died of a runtime panic

closeVars == <<cl>>

sessionVars == <<pc, sinceToggle, isRecording, isProcessing, sIsRecording,
                 audioBuffer, audioData, err, sigChan, quit, proc, watchdog>>

coordVars == <<cpc, mode, pidFile, oldPid, wrote, sent, exitCode, sigs>>

vars == <<pc, sinceToggle, isRecording, isProcessing, sIsRecording,
          audioBuffer, audioData, err, sigChan, quit, proc, watchdog,
          cpc, mode, pidFile, oldPid, wrote, sent, exitCode, sigs,
          dpc, dver, denv, dtext, denter, clipboard, primary, caret,
          dlog, mainExpired, setExpired, dret,
          hpc, hkSince, isPressed, presses, lastGap, listener, path,
          hcfg, hsample, mu, lpc, cancelled, tCtxExpired, extcall, conf,
          focus,
          sg,
          kb,
          au,
          cl>>

\* what the actions of one component leave alone
outsideSession ==
  <<coordVars, deliveryVars, hotkeyVars, lockVars, cancelVars, configVars,
    focusVars, signalVars, keyboardVars, audioVars, closeVars>>
outsideCoord ==
  <<sessionVars, deliveryVars, hotkeyVars, lockVars, cancelVars, configVars,
    focusVars, signalVars, keyboardVars, audioVars, closeVars>>
outsideDelivery ==
  <<sessionVars, coordVars, hotkeyVars, lockVars, cancelVars, configVars,
    focusVars, signalVars, keyboardVars, audioVars, closeVars>>
outsideHotkey ==
  <<sessionVars, coordVars, deliveryVars, lockVars, cancelVars, configVars,
    focusVars, signalVars, keyboardVars, audioVars, closeVars>>
outsideLock ==
  <<sessionVars, coordVars, deliveryVars, hotkeyVars, cancelVars, configVars,
    focusVars, signalVars, keyboardVars, audioVars, closeVars>>
outsideCancel ==
  <<sessionVars, coordVars, deliveryVars, hotkeyVars, lockVars, configVars,
    focusVars, signalVars, keyboardVars, audioVars, closeVars>>
outsideConfig ==
  <<sessionVars, coordVars, deliveryVars, hotkeyVars, lockVars, cancelVars,
    focusVars, signalVars, keyboardVars, audioVars, closeVars>>
outsideFocus ==
  <<sessionVars, coordVars, deliveryVars, hotkeyVars, lockVars, cancelVars,
    configVars, signalVars, keyboardVars, audioVars, closeVars>>
outsideSignal ==
  <<sessionVars, coordVars, deliveryVars, hotkeyVars, lockVars, cancelVars,
    configVars, focusVars, keyboardVars, audioVars, closeVars>>
outsideKeyboard ==
  <<sessionVars, coordVars, deliveryVars, hotkeyVars, lockVars, cancelVars,
    configVars, focusVars, signalVars, audioVars, closeVars>>
outsideAudio ==
  <<sessionVars, coordVars, deliveryVars, hotkeyVars, lockVars, cancelVars,
    configVars, focusVars, signalVars, keyboardVars, closeVars>>
outsideClose ==
  <<sessionVars, coordVars, deliveryVars, hotkeyVars, lockVars, cancelVars,
    configVars, focusVars, signalVars, keyboardVars, audioVars>>

\* what the user had copied before the delivery, and what a selection tool
\* stores when it is not given the text
UserClip == <<"u">>
Other == <<"?">>

Invocations == 1..MaxInvocations
Modes == {"plain", "toggle", "stop"}

\* a processing goroutine as go func() starts it: its position, the text and
\* the error Transcribe returned, and what it has done so far
NewProc == [pc |-> "transcribe", text |-> <<>>, ws |-> FALSE, terr |-> "nil",
            calls |-> 0, typed |-> 0, shownErr |-> FALSE, hid |-> FALSE,
            typeErr |-> FALSE]

\* the goroutines alive
Running == BagToSet(proc)

\* goroutine r becomes s
Becomes(r, s) == proc' = (proc (-) SetToBag({r})) (+) SetToBag({s})

\* DefaultConfig(); the fields it does not name are Go's zero values
DefaultConfig ==
  [GROQ_API_KEY |-> "", Hotkey |-> "ctrl+space", AudioDevice |-> "",
   DisableNotifications |-> FALSE, Verbose |-> FALSE,
   Model |-> "whisper-large-v3", Temperature |-> 0, AutoReturn |-> FALSE]

\* the environment variables Load reads and the texts they are given here;
\* "" is also what os.Getenv returns for a variable that is not set
EnvNames ==
  {"GROQ_API_KEY", "VOICE_TYPE_HOTKEY", "VOICE_TYPE_AUDIO_DEVICE",
   "VOICE_TYPE_MODEL", "VOICE_TYPE_TEMPERATURE", "VOICE_TYPE_NOTIFICATIONS",
   "VOICE_TYPE_VERBOSE"}

EnvValues(n) ==
  CASE n = "GROQ_API_KEY" -> {"", "gsk"}
    [] n = "VOICE_TYPE_HOTKEY" -> {"", "F12"}
    [] n = "VOICE_TYPE_AUDIO_DEVICE" -> {"", "hw:0"}
    [] n = "VOICE_TYPE_MODEL" -> {"", "whisper-1"}
    [] n = "VOICE_TYPE_TEMPERATURE" -> {"", "0.5", "warm"}
    [] n = "VOICE_TYPE_NOTIFICATIONS" -> {"", "0", "1"}
    [] n = "VOICE_TYPE_VERBOSE" -> {"", "0", "1"}

\* fmt.Sscanf(tempStr, "%f", &temp): the number of items scanned and the
\* value stored
Sscanf(tempStr) ==
  CASE tempStr = "0.5" -> [n |-> 1, temp |-> 5]
    [] OTHER -> [n |-> 0, temp |-> 0]

\* the values of a decoded JSON object, as map[string]interface{} holds them
JAbsent == [t |-> "absent", s |-> "", b |-> FALSE, n |-> 0]
JString(str) == [t |-> "string", s |-> str, b |-> FALSE, n |-> 0]
JBool(bool) == [t |-> "bool", s |-> "", b |-> bool, n |-> 0]
JNumber(num) == [t |-> "float64", s |-> "", b |-> FALSE, n |-> num]

JsonKeys ==
  {"auto_return", "groq_api_key", "hotkey", "audio_device", "model",
   "disable_notifications", "verbose", "temperature"}

\* the JSON object {}
EmptyObject == [k \in JsonKeys |-> JAbsent]

\* the config file: kind "missing" when os.ReadFile fails, "invalid" when
\* json.Unmarshal fails (nothing is decoded in either case), "object" with
\* the decoded object otherwise
NoFile == [kind |-> "missing", raw |-> <<>>]
InvalidFile == [kind |-> "invalid", raw |-> <<>>]
ObjectFile(raw) == [kind |-> "object", raw |-> raw]

ConfigFiles ==
  {NoFile, InvalidFile, ObjectFile(EmptyObject),
   ObjectFile([EmptyObject EXCEPT
                 !["auto_return"] = JBool(TRUE),
                 !["groq_api_key"] = JString("fkey"),
                 !["hotkey"] = JString("F6"),
                 !["audio_device"] = JString("hw:1"),
                 !["model"] = JString("whisper-2"),
                 !["disable_notifications"] = JBool(TRUE),
                 !["verbose"] = JBool(TRUE),
                 !["temperature"] = JNumber(7)]),
   ObjectFile([EmptyObject EXCEPT
                 !["hotkey"] = JString("F6"),
                 !["disable_notifications"] = JBool(FALSE),
                 !["verbose"] = JBool(FALSE),
                 !["temperature"] = JNumber(0)]),
   ObjectFile([EmptyObject EXCEPT
                 !["groq_api_key"] = JString(""),
                 !["hotkey"] = JString(""),
                 !["audio_device"] = JString(""),
                 !["model"] = JString("")]),
   ObjectFile([EmptyObject EXCEPT
                 !["auto_return"] = JString("yes"),
                 !["hotkey"] = JNumber(6),
                 !["model"] = JBool(TRUE),
                 !["disable_notifications"] = JString("true"),
                 !["verbose"] = JNumber(1),
                 !["temperature"] = JString("0.7")])}

\* the result before Load has run
NotLoaded == [done |-> FALSE, cfg |-> DefaultConfig, err |-> "nil"]

\* the tool's own window and the windows of the other applications
ToolWindow == "vt"
AppWindows == {"w1", "w2"}
Windows == AppWindows \cup {ToolWindow}

\* number of signals delivered to the active instance
MaxSignals == 4

\* number of devices `xinput list` prints
MaxDevices == 3

\* recordings started on one audio.System, and chunks read in one recording
MaxRecordings == 2
MaxChunks == 2
Recordings == 1..MaxRecordings

\* goroutines that call Close, and calls of Close in all
Closers == {1, 2}
MaxCloses == 2
LoopKinds == {"x11", "wayland", "generic"}

Init ==
  /\ pc = [t \in Threads |-> IF t = Main THEN "init" ELSE "idle"]
  /\ sinceToggle = DebounceMs
  /\ isRecording = FALSE
  /\ isProcessing = FALSE
  /\ sIsRecording = FALSE
  /\ audioBuffer = "empty"
  /\ audioData = [t \in Threads |-> "empty"]
  /\ err = [t \in Threads |-> "nil"]
  /\ sigChan = <<>>
  /\ quit = FALSE
  /\ proc = EmptyBag
  /\ watchdog = FALSE
  /\ cpc = [p \in Invocations |-> "none"]
  /\ mode = [p \in Invocations |-> "plain"]
  /\ pidFile = <<>>
  /\ oldPid = [p \in Invocations |-> 0]
  /\ wrote = [p \in Invocations |-> FALSE]
  /\ sent = [p \in Invocations |-> <<>>]
  /\ exitCode = [p \in Invocations |-> -1]
  /\ sigs = [p \in Invocations |-> {}]
  /\ dpc = "idle"
  /\ dver = "multi"
  /\ denv = [tools |-> {}, wayland |-> FALSE]
  /\ dtext = <<>>
  /\ denter = FALSE
  /\ clipboard = UserClip
  /\ primary = <<>>
  /\ caret = <<>>
  /\ dlog = <<>>
  /\ mainExpired = FALSE
  /\ setExpired = FALSE
  /\ dret = "none"
  /\ hpc = "none"
  /\ hkSince = 0
  /\ isPressed = FALSE
  /\ presses = 0
  /\ lastGap = -1
  /\ listener = [ret |-> "none", generic |-> "none", wayland |-> "none",
                 closed |-> FALSE]
  /\ path = {}
  /\ hcfg = [resCtrl |-> <<>>, resSpace |-> <<>>, ctrlCodes |-> <<>>,
             spaceCodes |-> <<>>, warned |-> FALSE]
  /\ hsample = [down |-> {}, chord |-> FALSE, fired |-> FALSE]
  /\ cancelled = FALSE
  /\ tCtxExpired = FALSE
  /\ extcall = [stage |-> 0, active |-> FALSE, hung |-> FALSE,
                result |-> "none"]
  /\ mu = Nobody
  /\ lpc = [t \in LockThreads |->
              IF t = Main THEN "L703" ELSE IF t \in Togglers THEN "idle"
              ELSE "none"]
  /\ conf = [env |-> [n \in EnvNames |-> ""], file |-> NoFile,
             ret |-> NotLoaded]
  /\ focus = [pc |-> "launch", active |-> "w1", before |-> "",
              visible |-> FALSE, prevWindowID |-> "", activated |-> ""]
  /\ sg = [chan |-> <<>>, hpc |-> "recv", delivered |-> FALSE,
           recording |-> TRUE, quit |-> FALSE, exited |-> FALSE,
           pidFile |-> TRUE, n |-> 0]
  /\ kb = [devices |-> <<>>, done |-> FALSE, id |-> ""]
  /\ au = [isRecording |-> FALSE, audioBuffer |-> <<>>, stdout |-> 0,
           open |-> FALSE, rec |-> 0,
           reader |-> [r \in Recordings |->
                        [pc |-> "none", on |-> 0, err |-> FALSE]],
           cpc |-> "idle", result |-> <<>>, handed |-> FALSE]
  /\ cl = [stopChan |-> "nil", loop |-> "none", kind |-> "none",
           closer |-> [c \in Closers |-> "idle"], calls |-> 0,
           returned |-> FALSE, late |-> FALSE, panicked |-> FALSE]

Alive == pc[Main] # "exited"

(***************************************************************************)
(* time                                                                    *)
(***************************************************************************)

Tick ==
  /\ Alive
  /\ sinceToggle < DebounceMs
  /\ sinceToggle' = Min(sinceToggle + TickMs, DebounceMs)
  /\ UNCHANGED <<pc, isRecording, isProcessing, sIsRecording, audioBuffer,
                 audioData, err, sigChan, quit, proc>>
  /\ UNCHANGED <<outsideSession, watchdog>>

(***************************************************************************)
(* toggleRecording                                                         *)
(***************************************************************************)

\* where a rejected toggle leaves its caller: the callback goroutine of
\* firePress ends with the early return, the handler goroutine goes back to
\* its range loop
Rejected(t) == IF t = SigHandler THEN "ret" ELSE "idle"

\* the guard without its debounce half
ToggleRejectedNoDebounce == isProcessing

\* the guard without its isProcessing half
ToggleRejectedNoBusy == sinceToggle < DebounceMs

\* the guard of toggleRecording, evaluated under app.mu
ToggleRejected == sinceToggle < DebounceMs \/ isProcessing

\* a toggle that starts a recording whatever isRecording says
ToggleBodyRestart(t) ==
  IF ToggleRejected
  THEN /\ pc' = [pc EXCEPT ![t] = Rejected(t)]
       /\ UNCHANGED sinceToggle
  ELSE /\ sinceToggle' = 0
       /\ pc' = [pc EXCEPT ![t] = "start"]

\* lines 745-759: lock, guard, lastToggle = now, read isRecording, unlock,
\* then branch to stopRecording or startRecording
ToggleBody(t) ==
  IF ToggleRejected
  THEN /\ pc' = [pc EXCEPT ![t] = Rejected(t)]
       /\ UNCHANGED sinceToggle
  ELSE /\ sinceToggle' = 0
       /\ pc' = [pc EXCEPT ![t] = IF isRecording THEN "stop" ELSE "start"]

\* firePress: go callback(); the callback is app.toggleRecording
HotkeyPress(t) ==
  /\ Alive
  /\ t \in Callbacks
  /\ pc[Main] # "init"
  /\ pc[t] = "idle"
  /\ ToggleBody(t)
  /\ UNCHANGED <<isRecording, isProcessing, sIsRecording, audioBuffer,
                 audioData, err, sigChan, quit, proc>>
  /\ UNCHANGED <<outsideSession, watchdog>>

\* the kernel delivers a signal; signal.Notify does not block on a full
\* channel (a signal that finds it full is dropped and changes nothing)
SignalArrive(sig) ==
  /\ Alive
  /\ sig \in Signals
  /\ Len(sigChan) < 1
  /\ sigChan' = Append(sigChan, sig)
  /\ UNCHANGED <<pc, sinceToggle, isRecording, isProcessing, sIsRecording,
                 audioBuffer, audioData, err, quit, proc>>
  /\ UNCHANGED <<outsideSession, watchdog>>

\* for sig := range sigChan, case SIGUSR1
SignalToggle ==
  /\ Alive
  /\ pc[SigHandler] = "idle"
  /\ sigChan # <<>>
  /\ Head(sigChan) = "SIGUSR1"
  /\ sigChan' = Tail(sigChan)
  /\ ToggleBody(SigHandler)
  /\ UNCHANGED <<isRecording, isProcessing, sIsRecording, audioBuffer,
                 audioData, err, quit, proc>>
  /\ UNCHANGED <<outsideSession, watchdog>>

\* for sig := range sigChan, case SIGINT, SIGTERM
SignalQuit ==
  /\ Alive
  /\ pc[SigHandler] = "idle"
  /\ sigChan # <<>>
  /\ Head(sigChan) = "SIGTERM"
  /\ sigChan' = Tail(sigChan)
  /\ quit' = TRUE
  /\ UNCHANGED <<pc, sinceToggle, isRecording, isProcessing, sIsRecording,
                 audioBuffer, audioData, err, proc>>
  /\ UNCHANGED <<outsideSession, watchdog>>

\* lines 748-749 and 672: the early return of a rejected toggle, back in the
\* handler's loop
Return ==
  /\ Alive
  /\ pc[SigHandler] = "ret"
  /\ pc' = [pc EXCEPT ![SigHandler] = "idle"]
  /\ UNCHANGED <<sinceToggle, isRecording, isProcessing, sIsRecording,
                 audioBuffer, audioData, err, sigChan, quit, proc>>
  /\ UNCHANGED <<outsideSession, watchdog>>

(***************************************************************************)
(* startRecording                                                          *)
(***************************************************************************)

\* where a thread continues when startRecording or stopRecording returns:
\* main goes on to app.a.Run(), a toggle source is done
After(t) == IF t = Main THEN "run" ELSE "idle"

\* the thread is inside startRecording or stopRecording
InTransition(t) ==
  pc[t] \in {"start", "setRec", "stop", "stopErr", "clearRec", "setProc"}

\* line 763: app.audioSys.StartRecording(), with the error return of 764-766
StartAudio(t) ==
  /\ Alive
  /\ pc[t] = "start"
  /\ IF sIsRecording
     THEN /\ pc' = [pc EXCEPT ![t] = After(t)]
          /\ UNCHANGED <<sIsRecording, audioBuffer>>
     ELSE /\ audioBuffer' = "empty"
          /\ sIsRecording' = TRUE
          /\ pc' = [pc EXCEPT ![t] = "setRec"]
  /\ UNCHANGED <<sinceToggle, isRecording, isProcessing, audioData, err,
                 sigChan, quit, proc>>
  /\ UNCHANGED <<outsideSession, watchdog>>

\* lines 768-770
SetRecording(t) ==
  /\ Alive
  /\ pc[t] = "setRec"
  /\ isRecording' = TRUE
  /\ pc' = [pc EXCEPT ![t] = After(t)]
  /\ UNCHANGED <<sinceToggle, isProcessing, sIsRecording, audioBuffer,
                 audioData, err, sigChan, quit, proc>>
  /\ UNCHANGED <<outsideSession, watchdog>>

\* readAudio: the first Read of the arecord pipe appended to the buffer (the
\* later ones leave it non-empty)
Capture ==
  /\ Alive
  /\ sIsRecording
  /\ audioBuffer = "empty"
  /\ audioBuffer' = "data"
  /\ UNCHANGED <<pc, sinceToggle, isRecording, isProcessing, sIsRecording,
                 audioData, err, sigChan, quit, proc>>
  /\ UNCHANGED <<outsideSession, watchdog>>

(***************************************************************************)
(* stopRecording                                                           *)
(***************************************************************************)

\* audio.System.StopRecording: the pair (len(result), error)
StopResult ==
  IF ~sIsRecording THEN [n |-> "empty", e |-> "not recording"]
  ELSE IF audioBuffer = "empty" THEN [n |-> "empty", e |-> "too short"]
  ELSE [n |-> audioBuffer, e |-> "nil"]

\* line 792: audioData, err := app.audioSys.StopRecording()
StopAudio(t) ==
  /\ Alive
  /\ pc[t] = "stop"
  /\ audioData' = [audioData EXCEPT ![t] = StopResult.n]
  /\ err' = [err EXCEPT ![t] = StopResult.e]
  /\ sIsRecording' = FALSE
  /\ audioBuffer' = IF StopResult.e = "nil" THEN "empty" ELSE audioBuffer
  /\ pc' = [pc EXCEPT ![t] = IF StopResult.e = "nil" THEN "clearRec"
                                                      ELSE "stopErr"]
  /\ UNCHANGED <<sinceToggle, isRecording, isProcessing, sigChan, quit, proc>>
  /\ UNCHANGED <<outsideSession, watchdog>>

\* lines 793-799: the error branch of stopRecording
StopFailed(t) ==
  /\ Alive
  /\ pc[t] = "stopErr"
  /\ isRecording' = FALSE
  /\ pc' = [pc EXCEPT ![t] = After(t)]
  /\ audioData' = [audioData EXCEPT ![t] = "empty"]
  /\ err' = [err EXCEPT ![t] = "nil"]
  /\ UNCHANGED <<sinceToggle, isProcessing, sIsRecording, audioBuffer,
                 sigChan, quit, proc>>
  /\ UNCHANGED <<outsideSession, watchdog>>

\* lines 801-814: isRecording = false, then the len(audioData) == 0 return
ClearRecording(t) ==
  /\ Alive
  /\ pc[t] = "clearRec"
  /\ isRecording' = FALSE
  /\ pc' = [pc EXCEPT ![t] = IF audioData[t] = "empty" THEN After(t)
                                                       ELSE "setProc"]
  /\ UNCHANGED <<sinceToggle, isProcessing, sIsRecording, audioBuffer,
                 audioData, err, sigChan, quit, proc>>
  /\ UNCHANGED <<outsideSession, watchdog>>

\* lines 823-827: isProcessing = true, go func() { ... }
SetProcessing(t) ==
  /\ Alive
  /\ pc[t] = "setProc"
  /\ BagCardinality(proc) < MaxProc
  /\ proc' = proc (+) SetToBag({NewProc})
  /\ isProcessing' = TRUE
  /\ pc' = [pc EXCEPT ![t] = After(t)]
  /\ audioData' = [audioData EXCEPT ![t] = "empty"]
  /\ UNCHANGED <<sinceToggle, isRecording, sIsRecording, audioBuffer,
                 err, sigChan, quit>>
  /\ UNCHANGED <<outsideSession, watchdog>>

(***************************************************************************)
(* the processing goroutine of stopRecording (lines 827-898)               *)
(***************************************************************************)

\* line 834: text, err := app.apiClient.Transcribe(app.ctx, audioData)
TranscribeFails(g, e) ==
  /\ Alive
  /\ g \in Running
  /\ g.pc = "transcribe"
  /\ e \in TranscribeErrors
  /\ Becomes(g, [g EXCEPT !.pc = "showErr", !.terr = e,
                           !.calls = Min(@ + 1, 2)])
  /\ UNCHANGED <<pc, sinceToggle, isRecording, isProcessing, sIsRecording,
                 audioBuffer, audioData, err, sigChan, quit>>
  /\ UNCHANGED <<outsideSession, watchdog>>

\* lines 834, 850-851: a successful Transcribe, text = strings.TrimSpace(text)
\* and the branch on text == ""; ws records that the trim removed something
TranscribeOk(g, txt) ==
  /\ Alive
  /\ g \in Running
  /\ g.pc = "transcribe"
  /\ txt \in Texts
  /\ Becomes(g, [g EXCEPT
       !.pc = IF TrimSpace(txt) = <<>> THEN "quitEmpty" ELSE "hide",
       !.text = TrimSpace(txt),
       !.ws = (TrimSpace(txt) # txt),
       !.calls = Min(@ + 1, 2)])
  /\ UNCHANGED <<pc, sinceToggle, isRecording, isProcessing, sIsRecording,
                 audioBuffer, audioData, err, sigChan, quit>>
  /\ UNCHANGED <<outsideSession, watchdog>>

\* the error branch without the indicator
ShowErrorSkipped(g) ==
  /\ Alive
  /\ g \in Running
  /\ g.pc = "showErr"
  /\ Becomes(g, [g EXCEPT !.pc = "quitErr"])
  /\ UNCHANGED <<pc, sinceToggle, isRecording, isProcessing, sIsRecording,
                 audioBuffer, audioData, err, sigChan, quit>>
  /\ UNCHANGED <<outsideSession, watchdog>>

\* lines 837-843: status "Error", crimson stroke, sleep 1500 ms
ShowError(g) ==
  /\ Alive
  /\ g \in Running
  /\ g.pc = "showErr"
  /\ Becomes(g, [g EXCEPT !.pc = "quitErr", !.shownErr = TRUE])
  /\ UNCHANGED <<pc, sinceToggle, isRecording, isProcessing, sIsRecording,
                 audioBuffer, audioData, err, sigChan, quit>>
  /\ UNCHANGED <<outsideSession, watchdog>>

\* lines 844-847, 852-855, 881-884, 887-897: safeUIUpdate(app.a.Quit) and
\* return; what remains of the goroutine is its deferred function
ProcQuit(g) ==
  /\ Alive
  /\ g \in Running
  /\ g.pc \in {"quitErr", "quitEmpty", "quitTypeFail", "quitOk"}
  /\ quit' = TRUE
  /\ Becomes(g, [NewProc EXCEPT !.pc = "defer"])
  /\ UNCHANGED <<pc, sinceToggle, isRecording, isProcessing, sIsRecording,
                 audioBuffer, audioData, err, sigChan>>
  /\ UNCHANGED <<outsideSession, watchdog>>

\* lines 860-877: window.Hide(), ActivateWindow(prevWindowID), sleep 500 ms
HideWindow(g) ==
  /\ Alive
  /\ g \in Running
  /\ g.pc = "hide"
  /\ Becomes(g, [g EXCEPT !.pc = "type", !.hid = TRUE])
  /\ UNCHANGED <<pc, sinceToggle, isRecording, isProcessing, sIsRecording,
                 audioBuffer, audioData, err, sigChan, quit>>
  /\ UNCHANGED <<outsideSession, watchdog>>

\* a delivery that is attempted again after it failed
TypeTextRetry(g, ok) ==
  /\ Alive
  /\ g \in Running
  /\ g.pc = "type"
  /\ ok \in BOOLEAN
  /\ Becomes(g, [g EXCEPT !.pc = IF ok THEN "quitOk" ELSE "type",
                           !.typeErr = ~ok,
                           !.typed = Min(@ + 1, 2)])
  /\ UNCHANGED <<pc, sinceToggle, isRecording, isProcessing, sIsRecording,
                 audioBuffer, audioData, err, sigChan, quit>>
  /\ UNCHANGED <<outsideSession, watchdog>>

\* line 879: app.typer.TypeText(app.ctx, text, app.cfg.AutoReturn); text is
\* not read again after the call
TypeText(g, ok) ==
  /\ Alive
  /\ g \in Running
  /\ g.pc = "type"
  /\ ok \in BOOLEAN
  /\ Becomes(g, [g EXCEPT !.pc = IF ok THEN "quitOk" ELSE "quitTypeFail",
                           !.text = <<>>,
                           !.ws = FALSE,
                           !.typeErr = ~ok,
                           !.typed = Min(@ + 1, 2)])
  /\ UNCHANGED <<pc, sinceToggle, isRecording, isProcessing, sIsRecording,
                 audioBuffer, audioData, err, sigChan, quit>>
  /\ UNCHANGED <<outsideSession, watchdog>>

\* lines 828-832: the deferred isProcessing = false; the goroutine is gone
Deferred(g) ==
  /\ Alive
  /\ g \in Running
  /\ g.pc = "defer"
  /\ isProcessing' = FALSE
  /\ proc' = proc (-) SetToBag({g})
  /\ UNCHANGED <<pc, sinceToggle, isRecording, sIsRecording, audioBuffer,
                 audioData, err, sigChan, quit>>
  /\ UNCHANGED <<outsideSession, watchdog>>

(***************************************************************************)
(* main (lines 684-722)                                                    *)
(***************************************************************************)

\* lines 685-700: hotkey.Initialize, OnPress, Start, createWindow
StartHotkey ==
  /\ pc[Main] = "init"
  /\ pc' = [pc EXCEPT ![Main] = "window"]
  /\ UNCHANGED <<sinceToggle, isRecording, isProcessing, sIsRecording,
                 audioBuffer, audioData, err, sigChan, quit, proc>>
  /\ UNCHANGED <<outsideSession, watchdog>>

\* line 703: app.lastToggle = time.Now(), then line 706 calls startRecording
SetLastToggle ==
  /\ pc[Main] = "window"
  /\ sinceToggle' = 0
  /\ pc' = [pc EXCEPT ![Main] = "start"]
  /\ UNCHANGED <<isRecording, isProcessing, sIsRecording, audioBuffer,
                 audioData, err, sigChan, quit, proc>>
  /\ UNCHANGED <<outsideSession, watchdog>>

\* lines 710-718: the safety shutdown. The timer is armed just before
\* app.a.Run() and its function runs once, 60 s later: it reads isRecording
\* under app.mu and calls app.a.Quit() when it is false
WatchdogFire ==
  /\ pc[Main] = "run"
  /\ ~watchdog
  /\ watchdog' = TRUE
  /\ quit' = (quit \/ ~isRecording)
  /\ UNCHANGED <<pc, sinceToggle, isRecording, isProcessing, sIsRecording,
                 audioBuffer, audioData, err, sigChan, proc>>
  /\ UNCHANGED outsideSession

\* lines 720-722, 1208-1213: Run returns after Quit, shutdown() cancels the
\* context and closes the audio system (Close stops a running capture, which
\* leaves no buffer), main returns
Shutdown ==
  /\ pc[Main] = "run"
  /\ quit
  /\ sIsRecording' = FALSE
  /\ audioBuffer' = "empty"
  /\ pc' = [pc EXCEPT ![Main] = "exited"]
  /\ UNCHANGED <<sinceToggle, isRecording, isProcessing, audioData, err,
                 sigChan, quit, proc>>
  /\ UNCHANGED <<outsideSession, watchdog>>

(***************************************************************************)
(* Single-instance coordinator: main(), lines 593-635, and its exits       *)
(***************************************************************************)

\* the liveness probe: os.FindProcess(pid) and p.Signal(syscall.Signal(0));
\* pid 0 is what Sscanf leaves when it parsed nothing, and Signal fails on it
IsLive(q) == q \in Invocations /\ cpc[q] \notin {"none", "exited"}

\* the effect on invocation x of the signal sig sent to process q: a handler
\* installed by signal.Notify records it; before that the Go runtime exits on
\* SIGTERM and takes no action on SIGUSR1
PcAfterSignal(x, q, sig) ==
  IF x = q /\ IsLive(q) /\ cpc[q] # "active" /\ sig = "SIGTERM"
  THEN "exited" ELSE cpc[x]

Deliver(p, q, sig) ==
  /\ sent' = [sent EXCEPT ![p] = <<[sig |-> sig, to |-> q, ok |-> IsLive(q)]>>]
  /\ sigs' = [x \in Invocations |->
                IF x = q /\ cpc[q] = "active" THEN sigs[x] \cup {sig}
                ELSE sigs[x]]

\* a user (or the desktop shortcut) starts the program
Launch(p, m) ==
  /\ cpc[p] = "none"
  /\ \A q \in Invocations : q < p => cpc[q] # "none"
  /\ m \in Modes
  /\ mode' = [mode EXCEPT ![p] = m]
  /\ cpc' = [cpc EXCEPT ![p] = IF m = "plain" THEN "stat" ELSE "flags"]
  /\ UNCHANGED <<pidFile, oldPid, wrote, sent, exitCode, sigs>>
  /\ UNCHANGED outsideCoord

\* lines 596-602 and 613-618: os.ReadFile(pidFile), Sscanf, FindProcess; with
\* no file --toggle goes on to start an instance and --stop exits 1
FlagsRead(p) ==
  /\ cpc[p] = "flags"
  /\ IF pidFile = <<>>
     THEN /\ cpc' = [cpc EXCEPT ![p] = IF mode[p] = "toggle" THEN "stat"
                                                             ELSE "exited"]
          /\ exitCode' = [exitCode EXCEPT ![p] = IF mode[p] = "toggle" THEN @
                                                                      ELSE 1]
          /\ UNCHANGED oldPid
     ELSE /\ oldPid' = [oldPid EXCEPT ![p] = Head(pidFile)]
          /\ cpc' = [cpc EXCEPT ![p] = "flagSend"]
          /\ UNCHANGED exitCode
  /\ UNCHANGED <<mode, pidFile, wrote, sent, sigs>>
  /\ UNCHANGED outsideCoord

\* lines 603-610: process.Signal(SIGUSR1 or SIGTERM), error ignored, os.Exit(0)
FlagsSend(p) ==
  /\ cpc[p] = "flagSend"
  /\ LET sig == IF mode[p] = "toggle" THEN "SIGUSR1" ELSE "SIGTERM"
     IN /\ Deliver(p, oldPid[p], sig)
        /\ cpc' = [x \in Invocations |->
                     IF x = p THEN "exited" ELSE PcAfterSignal(x, oldPid[p], sig)]
        /\ exitCode' = [x \in Invocations |->
                          IF x = p THEN 0
                          ELSE IF PcAfterSignal(x, oldPid[p], sig) # cpc[x]
                               THEN 2 ELSE exitCode[x]]
  /\ UNCHANGED <<mode, pidFile, oldPid, wrote>>
  /\ UNCHANGED outsideCoord

\* line 622: os.Stat(pidFile)
Stat(p) ==
  /\ cpc[p] = "stat"
  /\ cpc' = [cpc EXCEPT ![p] = IF pidFile # <<>> THEN "read" ELSE "write"]
  /\ UNCHANGED <<mode, pidFile, oldPid, wrote, sent, exitCode, sigs>>
  /\ UNCHANGED outsideCoord

\* lines 624-626: data, _ := os.ReadFile(pidFile); Sscanf(data, "%d", &oldPid)
ReadPid(p) ==
  /\ cpc[p] = "read"
  /\ oldPid' = [oldPid EXCEPT ![p] = IF pidFile = <<>> THEN 0 ELSE Head(pidFile)]
  /\ cpc' = [cpc EXCEPT ![p] = "probe"]
  /\ UNCHANGED <<mode, pidFile, wrote, sent, exitCode, sigs>>
  /\ UNCHANGED outsideCoord

\* a probe that takes every recorded pid for dead
ProbeNeverLive(p) ==
  /\ cpc[p] = "probe"
  /\ cpc' = [cpc EXCEPT ![p] = "write"]
  /\ UNCHANGED <<mode, pidFile, oldPid, wrote, sent, exitCode, sigs>>
  /\ UNCHANGED outsideCoord

\* a probe that takes every parsed pid for live
ProbeAlwaysLive(p) ==
  /\ cpc[p] = "probe"
  /\ cpc' = [cpc EXCEPT ![p] = IF oldPid[p] # 0 THEN "forward" ELSE "write"]
  /\ UNCHANGED <<mode, pidFile, oldPid, wrote, sent, exitCode, sigs>>
  /\ UNCHANGED outsideCoord

\* line 627: os.FindProcess(oldPid) and p.Signal(syscall.Signal(0)) == nil
Probe(p) ==
  /\ cpc[p] = "probe"
  /\ cpc' = [cpc EXCEPT ![p] = IF IsLive(oldPid[p]) THEN "forward" ELSE "write"]
  /\ UNCHANGED <<mode, pidFile, oldPid, wrote, sent, exitCode, sigs>>
  /\ UNCHANGED outsideCoord

\* lines 629-631: p.Signal(SIGUSR1), error ignored, os.Exit(0)
Forward(p) ==
  /\ cpc[p] = "forward"
  /\ Deliver(p, oldPid[p], "SIGUSR1")
  /\ cpc' = [cpc EXCEPT ![p] = "exited"]
  /\ exitCode' = [exitCode EXCEPT ![p] = 0]
  /\ UNCHANGED <<mode, pidFile, oldPid, wrote>>
  /\ UNCHANGED outsideCoord

\* lines 634-635: os.WriteFile(pidFile, own pid); defer os.Remove(pidFile)
WritePid(p) ==
  /\ cpc[p] = "write"
  /\ pidFile' = <<p>>
  /\ wrote' = [wrote EXCEPT ![p] = TRUE]
  /\ cpc' = [cpc EXCEPT ![p] = "setup"]
  /\ UNCHANGED <<mode, oldPid, sent, exitCode, sigs>>
  /\ UNCHANGED outsideCoord

\* lines 637-682: API key, audio init, signal.Notify and the handler goroutine
SetupDone(p) ==
  /\ cpc[p] = "setup"
  /\ cpc' = [cpc EXCEPT ![p] = "active"]
  /\ UNCHANGED <<mode, pidFile, oldPid, wrote, sent, exitCode, sigs>>
  /\ UNCHANGED outsideCoord

\* lines 647, 660 and 1240: log.Fatal calls os.Exit(1); deferred calls do not run
Fatal(p) ==
  /\ cpc[p] = "setup"
  /\ cpc' = [cpc EXCEPT ![p] = "exited"]
  /\ exitCode' = [exitCode EXCEPT ![p] = 1]
  /\ UNCHANGED <<mode, pidFile, oldPid, wrote, sent, sigs>>
  /\ UNCHANGED outsideCoord

\* lines 720-722 and the deferred os.Remove(pidFile) of line 635
CleanExit(p) ==
  /\ cpc[p] = "active"
  /\ pidFile' = <<>>
  /\ cpc' = [cpc EXCEPT ![p] = "exited"]
  /\ exitCode' = [exitCode EXCEPT ![p] = 0]
  /\ UNCHANGED <<mode, oldPid, wrote, sent, sigs>>
  /\ UNCHANGED outsideCoord

NextCoord ==
  \/ \E p \in Invocations, m \in Modes : Launch(p, m)
  \/ \E p \in Invocations : FlagsRead(p)
  \/ \E p \in Invocations : FlagsSend(p)
  \/ \E p \in Invocations : Stat(p)
  \/ \E p \in Invocations : ReadPid(p)
  \/ \E p \in Invocations : Probe(p)
  \/ \E p \in Invocations : Forward(p)
  \/ \E p \in Invocations : WritePid(p)
  \/ \E p \in Invocations : SetupDone(p)
  \/ \E p \in Invocations : Fatal(p)
  \/ \E p \in Invocations : CleanExit(p)

SpecCoord == Init /\ [][NextCoord]_vars

(***************************************************************************)
(* Delivery engine: typing.System.TypeText, its two versions               *)
(***************************************************************************)

Tools == {"wl-copy", "xclip", "xsel", "wtype", "xdotool", "ydotool"}

\* the environments a call can run in
Envs == [tools : SUBSET Tools, wayland : BOOLEAN]

\* how an external command ends: exit 0, exit non-zero, no exit before the
\* deadline of its context
Outcomes == {"ok", "fail", "hang"}

\* the texts the controller passes on: trimmed and not empty
DeliveredTexts == {t \in Texts : t # <<>> /\ TrimSpace(t) = t}

\* one exec.CommandContext(...).Run() of the chain: what it does (op), its
\* program, whether it is guarded by the Wayland test, what it stores (w), the
\* context it runs under, and where the code goes on after exit 0 (ok), after an
\* error (fail), and when its guard is false (skip); "nil" and "err" are the
\* returns of TypeText
Cmd(op, tool, wl, w, ctx, ok, fail, skip) ==
  [op |-> op, tool |-> tool, wl |-> wl, w |-> w, ctx |-> ctx,
   ok |-> ok, fail |-> fail, skip |-> skip]

\* PressEnter: Wayland and wtype, else xdotool, else an error; the callers
\* discard its result
PressEnterCmds ==
  [enter    |-> Cmd("enter", "wtype", TRUE, "none", "enter", "nil", "nil", "xdoEnter"),
   xdoEnter |-> Cmd("enter", "xdotool", FALSE, "none", "enter", "nil", "nil", "nil")]

\* the fallback of both versions: ydotool type, wtype, xdotool type, each with
\* its own Enter, and the aggregate error after the last
DirectTyping ==
  [ydoType    |-> Cmd("type", "ydotool", FALSE, "none", "main", "ydoEnter", "wtypeType", "wtypeType"),
   ydoEnter   |-> Cmd("enter", "ydotool", FALSE, "none", "main", "nil", "nil", "nil"),
   wtypeType  |-> Cmd("type", "wtype", FALSE, "none", "main", "wtypeEnter", "xdoType", "xdoType"),
   wtypeEnter |-> Cmd("enter", "wtype", FALSE, "none", "main", "nil", "nil", "nil"),
   xdoType    |-> Cmd("type", "xdotool", FALSE, "none", "main", "enter", "err", "err")]

\* SetPrimarySelection of the multi-buffer version: the clipboard and the
\* PRIMARY selection are both written, the results are discarded; the text is
\* passed as an argument, which wl-copy stores and xclip and xsel do not read
SetPrimarySelectionMulti ==
  [wlClip    |-> Cmd("set-clipboard", "wl-copy", TRUE, "text", "set", "wlPrim", "wlPrim", "xclipClip"),
   wlPrim    |-> Cmd("set-primary", "wl-copy", TRUE, "text", "set", "wtypeCtrlV", "wtypeCtrlV", "wtypeCtrlV"),
   xclipClip |-> Cmd("set-clipboard", "xclip", FALSE, "other", "set", "xclipPrim", "xclipPrim", "xselClip"),
   xclipPrim |-> Cmd("set-primary", "xclip", FALSE, "other", "set", "wtypeCtrlV", "wtypeCtrlV", "wtypeCtrlV"),
   xselClip  |-> Cmd("set-clipboard", "xsel", FALSE, "other", "set", "xselPrim", "xselPrim", "wtypeCtrlV"),
   xselPrim  |-> Cmd("set-primary", "xsel", FALSE, "other", "set", "wtypeCtrlV", "wtypeCtrlV", "wtypeCtrlV")]

\* PasteText: Ctrl+V by wtype, by xdotool, then Shift+Insert by wtype, by
\* xdotool; the first exit 0 returns nil (TypeText then presses Enter), the
\* error return sends TypeText to the direct typing
PasteText ==
  [wtypeCtrlV    |-> Cmd("chord-ctrlv", "wtype", TRUE, "none", "main", "enter", "xdoCtrlV", "xdoCtrlV"),
   xdoCtrlV      |-> Cmd("chord-ctrlv", "xdotool", FALSE, "none", "main", "enter", "wtypeShiftIns", "wtypeShiftIns"),
   wtypeShiftIns |-> Cmd("chord-shiftins", "wtype", TRUE, "none", "main", "enter", "xdoShiftIns", "xdoShiftIns"),
   xdoShiftIns   |-> Cmd("chord-shiftins", "xdotool", FALSE, "none", "main", "enter", "ydoType", "ydoType")]

\* SetPrimarySelection of the separate-buffer version: one command, the text
\* on its standard input, its error returned
SetPrimarySelectionSeparate ==
  [sWl    |-> Cmd("set-primary", "wl-copy", TRUE, "text", "set", "sWtypeChord", "ydoType", "sXclip"),
   sXclip |-> Cmd("set-primary", "xclip", FALSE, "text", "set", "sWtypeChord", "ydoType", "sXsel"),
   sXsel  |-> Cmd("set-primary", "xsel", FALSE, "text", "set", "sWtypeChord", "ydoType", "ydoType")]

\* lines 245-264 of the separate-buffer TypeText: Shift+Insert by wtype, else
\* by xdotool, the result of the command discarded, then Enter and return nil
ShiftInsertSeparate ==
  [sWtypeChord |-> Cmd("chord-shiftins", "wtype", FALSE, "none", "main", "enter", "enter", "sXdoChord"),
   sXdoChord   |-> Cmd("chord-shiftins", "xdotool", FALSE, "none", "main", "enter", "enter", "ydoType")]

\* the commands of a version of TypeText, by position
Chain(ver) ==
  IF ver = "multi"
  THEN SetPrimarySelectionMulti @@ PasteText @@ DirectTyping @@ PressEnterCmds
  ELSE SetPrimarySelectionSeparate @@ ShiftInsertSeparate @@ DirectTyping
       @@ PressEnterCmds

\* the first position of a version
Entry(ver) == IF ver = "multi" THEN "wlClip" ELSE "sWl"

\* the guard of a command: exec.LookPath finds its program, WAYLAND_DISPLAY
\* names a Wayland display where the code asks for it, and pressEnter is set
\* for the Enter key
Avail(r, env, press) ==
  /\ r.tool \in env.tools
  /\ r.wl => env.wayland
  /\ r.op = "enter" => press

\* the position the code reaches from pos without running a command
RECURSIVE Settle(_, _, _, _)
Settle(ver, pos, env, press) ==
  IF pos \in {"nil", "err"} THEN pos
  ELSE IF Avail(Chain(ver)[pos], env, press) THEN pos
  ELSE Settle(ver, Chain(ver)[pos].skip, env, press)

\* main.go lines 589-591 and 879: --no-return clears cfg.AutoReturn, which is
\* the pressEnter argument
PressEnterArg(autoReturn, noReturn) == IF noReturn THEN FALSE ELSE autoReturn

\* TypeText has returned or goes on at position pos
Arrive(pos) ==
  /\ dpc' = IF pos \in {"nil", "err"} THEN "done" ELSE pos
  /\ dret' = IF pos = "nil" THEN "nil" ELSE IF pos = "err" THEN "error" ELSE dret

\* the call app.typer.TypeText(app.ctx, text, app.cfg.AutoReturn)
TypeTextCall(ver, env, txt, autoReturn, noReturn) ==
  /\ dpc = "idle"
  /\ ver \in {"multi", "separate"}
  /\ env \in Envs
  /\ txt \in DeliveredTexts
  /\ dver' = ver
  /\ denv' = env
  /\ dtext' = txt
  /\ denter' = PressEnterArg(autoReturn, noReturn)
  /\ Arrive(Settle(ver, Entry(ver), env, PressEnterArg(autoReturn, noReturn)))
  /\ UNCHANGED <<clipboard, primary, caret, dlog, mainExpired, setExpired>>
  /\ UNCHANGED outsideDelivery

\* what a selection tool stores
Written(w) == IF w = "text" THEN dtext ELSE Other

\* exec.CommandContext(ctx, ...).Run() at the current position: a context
\* whose deadline has passed starts no process and returns its error; a
\* command that hangs is killed at the deadline of its context
Run(res, ops) ==
  /\ dpc \notin {"idle", "done"}
  /\ res \in Outcomes
  /\ LET r == Chain(dver)[dpc]
         dead == mainExpired \/ (r.ctx = "set" /\ setExpired)
         result == IF dead THEN "expired"
                   ELSE IF res = "hang" THEN "timeout" ELSE res
     IN /\ r.op \in ops
        /\ dead => res = "fail"
        /\ dlog' = Append(dlog, [op |-> r.op, tool |-> r.tool, res |-> result])
        /\ clipboard' = IF result = "ok" /\ r.op = "set-clipboard"
                        THEN Written(r.w) ELSE clipboard
        /\ primary' = IF result = "ok" /\ r.op = "set-primary"
                      THEN Written(r.w) ELSE primary
        /\ caret' =
             IF result # "ok" THEN caret
             ELSE IF r.op = "chord-ctrlv"
                  THEN Append(caret, [by |-> "paste", what |-> clipboard])
             ELSE IF r.op = "chord-shiftins"
                  THEN Append(caret, [by |-> "paste", what |-> primary])
             ELSE IF r.op = "type"
                  THEN Append(caret, [by |-> "type", what |-> dtext])
             ELSE IF r.op = "enter"
                  THEN Append(caret, [by |-> "enter", what |-> <<>>])
             ELSE caret
        /\ mainExpired' = (mainExpired \/ (result = "timeout" /\ r.ctx = "main"))
        /\ setExpired' = (setExpired \/ (result = "timeout" /\ r.ctx = "set"))
        /\ Arrive(Settle(dver, IF result = "ok" THEN r.ok ELSE r.fail,
                         denv, denter))
  /\ UNCHANGED <<dver, denv, dtext, denter>>
  /\ UNCHANGED outsideDelivery

\* wl-copy, xclip or xsel run by SetPrimarySelection
WriteSelection(res) == Run(res, {"set-clipboard", "set-primary"})

\* the paste chord: Ctrl+V or Shift+Insert by wtype or xdotool
PasteChord(res) == Run(res, {"chord-ctrlv", "chord-shiftins"})

\* the fallback: ydotool type, wtype, xdotool type
TypeDirect(res) == Run(res, {"type"})

\* the trailing Enter key
PressEnter(res) == Run(res, {"enter"})

NextDelivery ==
  \/ \E ver \in {"multi", "separate"}, env \in Envs, txt \in DeliveredTexts,
        autoReturn \in BOOLEAN, noReturn \in BOOLEAN :
       TypeTextCall(ver, env, txt, autoReturn, noReturn)
  \/ \E res \in Outcomes : WriteSelection(res)
  \/ \E res \in Outcomes : PasteChord(res)
  \/ \E res \in Outcomes : TypeDirect(res)
  \/ \E res \in Outcomes : PressEnter(res)

SpecDelivery == Init /\ [][NextDelivery]_vars

(***************************************************************************)
(* Hotkey detector: Listener.Initialize and its polling goroutines         *)
(* (part_001)                                                              *)
(***************************************************************************)

\* the tools whose presence detectAndSetup and pollKeyPressGeneric test
HotkeyTools == {"xdotool", "ydotool"}

\* lines 306-309: exec.LookPath(tool) finds it
ToolAvailable(tool) == tool \in path

\* the key codes "xinput query-state" can report down
KeyCodes == {"37", "105", "65", "66"}

\* lines 86-87: the hard-coded defaults
DefaultCtrl == <<"37", "105">>

\* a detector without a default for Space
DefaultSpaceNone == <<>>

DefaultSpace == <<"65">>

\* the tables "xmodmap -pk" can print, one record per line that names a
\* keysym: the usual table, one without space, one with Control_L moved to
\* code 66, one whose space line has no parsable code, and an empty one
XmodmapTables ==
  { <<[code |-> "37", sym |-> "Control_L"], [code |-> "65", sym |-> "space"],
      [code |-> "105", sym |-> "Control_R"]>>,
    <<[code |-> "37", sym |-> "Control_L"]>>,
    <<[code |-> "66", sym |-> "Control_L"], [code |-> "65", sym |-> "space"]>>,
    <<[code |-> "37", sym |-> "Control_L"], [code |-> "", sym |-> "space"]>>,
    <<>> }

\* lines 146-151: cmd.CombinedOutput() of xmodmap: its error and its output
XmodmapOutputs ==
  [failed : {FALSE}, lines : XmodmapTables]
    \cup {[failed |-> TRUE, lines |-> <<>>]}

\* lines 164-187: the codes of the lines that name the keysym, in line order;
\* a line without a code is skipped
RECURSIVE CodesOf(_, _)
CodesOf(name, lines) ==
  IF lines = <<>> THEN <<>>
  ELSE LET line == Head(lines)
           rest == CodesOf(name, Tail(lines))
       IN IF line.sym = name /\ line.code # "" THEN <<line.code>> \o rest
                                                ELSE rest

\* lines 144-192: resolveKeycodes(names...); no codes when xmodmap failed
RECURSIVE resolveKeycodes(_, _)
resolveKeycodes(names, output) ==
  IF output.failed \/ names = <<>> THEN <<>>
  ELSE CodesOf(Head(names), output.lines)
         \o resolveKeycodes(Tail(names), output)

\* lines 109-123: the loop over a component's codes, with its break
RECURSIVE AnyDown(_, _)
AnyDown(codes, dn) ==
  IF codes = <<>> THEN FALSE
  ELSE IF Head(codes) \in dn THEN TRUE
  ELSE AnyDown(Tail(codes), dn)

\* a chord that is down as soon as one of its components is
ChordDownEither(ctrlDown, spaceDown) == ctrlDown \/ spaceDown

\* line 125: currentlyDown := ctrlDown && spaceDown
ChordDown(ctrlDown, spaceDown) == ctrlDown /\ spaceDown

\* the time one iteration of the loop can take: the xinput query and the sleep
Elapsed == {PollMs + q * QueryStepMs : q \in 0..MaxQuery}

\* a guard that lets every press through
GuardPassedAlways(since) == TRUE

\* line 129: time.Since(lastToggle) > 400*time.Millisecond
GuardPassed(since) == since > GuardMs

\* the environment installs or removes a tool, while Initialize or
\* pollKeyPressGeneric is still to look for one
PathChange(tool) ==
  /\ tool \in HotkeyTools
  /\ listener.ret = "none" \/ listener.generic = "poll"
  /\ path' = IF tool \in path THEN path \ {tool} ELSE path \cup {tool}
  /\ UNCHANGED <<hpc, hkSince, isPressed, presses, lastGap, listener, hcfg,
                 hsample>>
  /\ UNCHANGED outsideHotkey

\* lines 31-72, 237-248, 283-287: Initialize and detectAndSetup; wl: the
\* variable WAYLAND_DISPLAY contains "wayland", disp: DISPLAY contains ":".
\* Every branch starts one goroutine and returns nil
Initialize(wl, disp) ==
  /\ listener.ret = "none"
  /\ LET x11 == (wl /\ ToolAvailable("xdotool"))
                  \/ (~wl /\ disp /\ ToolAvailable("xdotool"))
         way == wl /\ ~ToolAvailable("xdotool") /\ ToolAvailable("ydotool")
     IN /\ hpc' = IF x11 THEN "setup" ELSE hpc
        /\ listener' = [listener EXCEPT
                          !.ret = "nil",
                          !.wayland = IF way THEN "poll" ELSE @,
                          !.generic = IF ~x11 /\ ~way THEN "poll" ELSE @]
  /\ UNCHANGED <<hkSince, isPressed, presses, lastGap, path, hcfg, hsample>>
  /\ UNCHANGED outsideHotkey

\* where pollKeyPressGeneric is after it has started pollKeyPressX11, in a
\* detector that goes on polling
HandedOverStays == "poll"

\* lines 228-229: go l.pollKeyPressX11(); return
HandedOver == "done"

\* lines 220-234: one iteration of pollKeyPressGeneric: with xdotool present
\* it starts pollKeyPressX11 and returns, otherwise it sleeps for a second
GenericCheck ==
  /\ listener.generic = "poll"
  /\ ~listener.closed
  /\ IF ToolAvailable("xdotool")
     THEN /\ hpc' = "setup"
          /\ listener' = [listener EXCEPT !.generic = HandedOver]
     ELSE UNCHANGED <<hpc, listener>>
  /\ UNCHANGED <<hkSince, isPressed, presses, lastGap, path, hcfg, hsample>>
  /\ UNCHANGED outsideHotkey

\* lines 75-95: findKeyboardID (it returns "3" when it finds no device, never
\* ""), the two calls of resolveKeycodes on what xmodmap printed, the
\* defaults, lastToggle := time.Now(), isPressed := false
X11Setup(output) ==
  /\ hpc = "setup"
  /\ output \in XmodmapOutputs
  /\ LET ctrl == resolveKeycodes(<<"Control_L", "Control_R">>, output)
         space == resolveKeycodes(<<"space">>, output)
         default == Len(ctrl) = 0 \/ Len(space) = 0
     IN hcfg' = [resCtrl |-> ctrl, resSpace |-> space,
                 ctrlCodes |-> IF default THEN DefaultCtrl ELSE ctrl,
                 spaceCodes |-> IF default THEN DefaultSpace ELSE space,
                 warned |-> default]
  /\ hkSince' = 0
  /\ isPressed' = FALSE
  /\ hpc' = "poll"
  /\ UNCHANGED <<presses, lastGap, listener, path, hsample>>
  /\ UNCHANGED outsideHotkey

\* one iteration of the loop, lines 97-141: xinput reports the codes dn down
\* e milliseconds after the previous sample; a chord that has just gone down
\* is dispatched when the guard lets it, a chord that has gone up clears
\* isPressed
PollSample(dn, e) ==
  /\ hpc = "poll"
  /\ ~listener.closed
  /\ e \in Elapsed
  /\ dn \in SUBSET KeyCodes
  /\ LET since == Min(hkSince + e, GuardMs + 1)
         ctrlDown == AnyDown(hcfg.ctrlCodes, dn)
         spaceDown == AnyDown(hcfg.spaceCodes, dn)
         currentlyDown == ChordDown(ctrlDown, spaceDown)
     IN IF currentlyDown /\ ~isPressed
        THEN IF GuardPassed(since)
             THEN /\ presses' = Min(presses + 1, MaxPresses)
                  /\ lastGap' = since
                  /\ isPressed' = TRUE
                  /\ hkSince' = 0
                  /\ hsample' = [down |-> dn, chord |-> currentlyDown,
                                 fired |-> TRUE]
             ELSE /\ hkSince' = since
                  /\ hsample' = [down |-> dn, chord |-> currentlyDown,
                                 fired |-> FALSE]
                  /\ UNCHANGED <<isPressed, presses, lastGap>>
        ELSE /\ isPressed' = IF ~currentlyDown /\ isPressed THEN FALSE
                                                            ELSE isPressed
             /\ hkSince' = since
             /\ hsample' = [down |-> dn, chord |-> currentlyDown,
                            fired |-> FALSE]
             /\ UNCHANGED <<presses, lastGap>>
  /\ UNCHANGED <<hpc, listener, path, hcfg>>
  /\ UNCHANGED outsideHotkey

\* lines 345-352: Listener.Close closes stopChan once
Close ==
  /\ listener.ret # "none"
  /\ ~listener.closed
  /\ listener' = [listener EXCEPT !.closed = TRUE]
  /\ UNCHANGED <<hpc, hkSince, isPressed, presses, lastGap, path, hcfg,
                 hsample>>
  /\ UNCHANGED outsideHotkey

\* lines 98-102: the loop of pollKeyPressX11 finds stopChan closed and returns
StopPolling ==
  /\ hpc = "poll"
  /\ listener.closed
  /\ hpc' = "stopped"
  /\ UNCHANGED <<hkSince, isPressed, presses, lastGap, listener, path, hcfg,
                 hsample>>
  /\ UNCHANGED outsideHotkey

\* lines 220-225 and 256-261: the loops of pollKeyPressGeneric and
\* pollKeyPressWayland find stopChan closed and return
StopOther ==
  /\ listener.closed
  /\ listener.generic = "poll" \/ listener.wayland = "poll"
  /\ listener' = [listener EXCEPT
                    !.generic = IF @ = "poll" THEN "stopped" ELSE @,
                    !.wayland = IF @ = "poll" THEN "stopped" ELSE @]
  /\ UNCHANGED <<hpc, hkSince, isPressed, presses, lastGap, path, hcfg,
                 hsample>>
  /\ UNCHANGED outsideHotkey

NextHotkey ==
  \/ \E tool \in HotkeyTools : PathChange(tool)
  \/ \E wl \in BOOLEAN, disp \in BOOLEAN : Initialize(wl, disp)
  \/ GenericCheck
  \/ \E output \in XmodmapOutputs : X11Setup(output)
  \/ \E dn \in SUBSET KeyCodes, e \in Elapsed : PollSample(dn, e)
  \/ Close
  \/ StopPolling
  \/ StopOther

SpecHotkey == Init /\ [][NextHotkey]_vars

\* pollKeyPressGeneric is scheduled again and again
SpecHotkeyFair == SpecHotkey /\ WF_vars(GenericCheck)

(***************************************************************************)
(* The session mutex: every line of main.go between the start of the       *)
(* listeners (line 700) and the end of the processing goroutine that locks *)
(* or unlocks app.mu or touches lastToggle, isRecording or isProcessing    *)
(***************************************************************************)

\* the guard fields of the session
GuardFields == {"lastToggle", "isRecording", "isProcessing"}

\* one entry per line: what it does (op), the guard fields it reads or
\* writes, and the lines that can follow it; "end" is the return of the
\* outermost function of the thread. The outcome of a condition is left
\* open: both branches are in next
LockProg ==
  [ \* main: lastToggle = time.Now(), then startRecording()
    L703 |-> [op |-> "write", fields |-> {"lastToggle"}, next |-> {"L763"}],
    \* toggleRecording
    L745 |-> [op |-> "lock", fields |-> {}, next |-> {"L747"}],
    L747 |-> [op |-> "read", fields |-> {"lastToggle", "isProcessing"},
             next |-> {"L748", "L751"}],
    L748 |-> [op |-> "unlock", fields |-> {}, next |-> {"end"}],
    L751 |-> [op |-> "write", fields |-> {"lastToggle"}, next |-> {"L752"}],
    L752 |-> [op |-> "read", fields |-> {"isRecording"}, next |-> {"L753"}],
    L753 |-> [op |-> "unlock", fields |-> {}, next |-> {"L763", "L792"}],
    \* startRecording
    L763 |-> [op |-> "call", fields |-> {}, next |-> {"end", "L768"}],
    L768 |-> [op |-> "lock", fields |-> {}, next |-> {"L769"}],
    L769 |-> [op |-> "write", fields |-> {"isRecording"}, next |-> {"L770"}],
    L770 |-> [op |-> "unlock", fields |-> {}, next |-> {"end"}],
    \* stopRecording
    L792 |-> [op |-> "call", fields |-> {}, next |-> {"L795", "L801"}],
    L795 |-> [op |-> "lock", fields |-> {}, next |-> {"L796"}],
    L796 |-> [op |-> "write", fields |-> {"isRecording"}, next |-> {"L797"}],
    L797 |-> [op |-> "unlock", fields |-> {}, next |-> {"end"}],
    L801 |-> [op |-> "lock", fields |-> {}, next |-> {"L802"}],
    L802 |-> [op |-> "write", fields |-> {"isRecording"}, next |-> {"L803"}],
    L803 |-> [op |-> "unlock", fields |-> {}, next |-> {"end", "L823"}],
    L823 |-> [op |-> "lock", fields |-> {}, next |-> {"L824"}],
    L824 |-> [op |-> "write", fields |-> {"isProcessing"}, next |-> {"L825"}],
    L825 |-> [op |-> "unlock", fields |-> {}, next |-> {"L827"}],
    L827 |-> [op |-> "go", fields |-> {}, next |-> {"end"}],
    \* the processing goroutine: its body, then its deferred function
    L833 |-> [op |-> "call", fields |-> {}, next |-> {"L829"}],
    L829 |-> [op |-> "lock", fields |-> {}, next |-> {"L830"}],
    L830 |-> [op |-> "write", fields |-> {"isProcessing"}, next |-> {"L831"}],
    L831 |-> [op |-> "unlock", fields |-> {}, next |-> {"end"}],
    \* the function of time.AfterFunc
    L711 |-> [op |-> "lock", fields |-> {}, next |-> {"L712"}],
    L712 |-> [op |-> "read", fields |-> {"isRecording"}, next |-> {"L713"}],
    L713 |-> [op |-> "unlock", fields |-> {}, next |-> {"end"}] ]

\* the lines of LockProg
Lines == DOMAIN LockProg

Instr(at) == LockProg[at]

\* where a thread is when its outermost function has returned: main goes on
\* to app.a.Run(), the signal handler and the hotkey callback wait for the
\* next toggle, a goroutine is gone
Returned(t) ==
  IF t = Main THEN "run" ELSE IF t \in Togglers THEN "idle" ELSE "none"

Goto(t, n) == IF n = "end" THEN Returned(t) ELSE n

\* the thread is at a line of the given kind
At(t, op) == lpc[t] \in Lines /\ Instr(lpc[t]).op = op

\* lines 672-675 and 687-689: SIGUSR1 or a hotkey press calls toggleRecording
ToggleCalled(t) ==
  /\ t \in Togglers
  /\ lpc[t] = "idle"
  /\ lpc' = [lpc EXCEPT ![t] = "L745"]
  /\ UNCHANGED mu
  /\ UNCHANGED outsideLock

\* app.mu.Lock(): blocks while another thread holds the mutex
Lock(t) ==
  /\ At(t, "lock")
  /\ mu = Nobody
  /\ mu' = t
  /\ \E n \in Instr(lpc[t]).next : lpc' = [lpc EXCEPT ![t] = Goto(t, n)]
  /\ UNCHANGED outsideLock

\* app.mu.Unlock()
Unlock(t) ==
  /\ At(t, "unlock")
  /\ mu' = IF mu = t THEN Nobody ELSE mu
  /\ \E n \in Instr(lpc[t]).next : lpc' = [lpc EXCEPT ![t] = Goto(t, n)]
  /\ UNCHANGED outsideLock

\* a line that reads or writes guard fields, or calls into the audio system,
\* the transcription client or the typing system; n is the line it goes to
Execute(t, n) ==
  /\ At(t, "read") \/ At(t, "write") \/ At(t, "call")
  /\ n \in Instr(lpc[t]).next
  /\ lpc' = [lpc EXCEPT ![t] = Goto(t, n)]
  /\ UNCHANGED mu
  /\ UNCHANGED outsideLock

\* line 827: go func() { ... }(); one processing goroutine is followed
StartWorker(t) ==
  /\ At(t, "go")
  /\ lpc[Worker] = "none"
  /\ lpc' = [lpc EXCEPT ![t] = Returned(t), ![Worker] = "L833"]
  /\ UNCHANGED mu
  /\ UNCHANGED outsideLock

\* line 710: time.AfterFunc(60*time.Second, ...), armed by main before Run,
\* runs its function
WatchdogRuns ==
  /\ lpc[Main] = "run"
  /\ lpc[Watchdog] = "none"
  /\ lpc' = [lpc EXCEPT ![Watchdog] = "L711"]
  /\ UNCHANGED mu
  /\ UNCHANGED outsideLock

NextLock ==
  \/ \E t \in Togglers : ToggleCalled(t)
  \/ \E t \in LockThreads : Lock(t)
  \/ \E t \in LockThreads : Unlock(t)
  \/ \E t \in LockThreads, n \in Lines \cup {"end"} : Execute(t, n)
  \/ \E t \in LockThreads : StartWorker(t)
  \/ WatchdogRuns

SpecLock == Init /\ [][NextLock]_vars

(***************************************************************************)
(* Cancellation: app.ctx, and the calls of the processing goroutine        *)
(* (main.go lines 834-879) that wait for the network or for a command      *)
(***************************************************************************)

\* the calls in the order the goroutine makes them; ctx: what bounds the call,
\* "app" for app.ctx, "tCtx" for the context.WithTimeout(ctx, 20 s) of
\* TypeText, "none" for exec.Command without a context
ExternalCalls ==
  << [kind |-> "transcribe", ctx |-> "app"],        \* client.go 105, 114
     [kind |-> "windowQuery", ctx |-> "none"],      \* part_004 174
     [kind |-> "windowActivate", ctx |-> "none"],   \* part_004 186
     [kind |-> "selectionWrite", ctx |-> "tCtx"],   \* part_004 112-138
     [kind |-> "pasteChord", ctx |-> "tCtx"],       \* part_004 81-109
     [kind |-> "typeDirect", ctx |-> "tCtx"] >>     \* part_004 46-77

\* no further call
Finished == Len(ExternalCalls) + 1

\* main.go lines 834-879 and part_004 lines 29-77: the call that follows the
\* one of stage st that returned res: a failed transcription ends the
\* goroutine, a failed window query skips the activation, a paste chord that
\* succeeded ends TypeText, the other results are not looked at
NextStage(st, res) ==
  CASE st = 0 -> 1
    [] st = 1 -> IF res = "ok" THEN 2 ELSE Finished
    [] st = 2 -> IF res = "ok" THEN 3 ELSE 4
    [] st = 3 -> 4
    [] st = 4 -> 5
    [] st = 5 -> IF res = "ok" THEN Finished ELSE 6
    [] OTHER -> Finished

\* the call the goroutine has begun last
CurrentCall == ExternalCalls[extcall.stage]

\* the context of the call is done: app.ctx when cancelled, tCtx when
\* cancelled or past its deadline; a call without a context has none
ContextDone(c) ==
  \/ c.ctx = "app" /\ cancelled
  \/ c.ctx = "tCtx" /\ (cancelled \/ tCtxExpired)

\* the goroutine begins its next call; hung: left alone, the server or the
\* command would never answer
CallStart(hung) ==
  /\ ~extcall.active
  /\ NextStage(extcall.stage, extcall.result) # Finished
  /\ extcall' = [extcall EXCEPT
                   !.stage = NextStage(extcall.stage, extcall.result),
                   !.active = TRUE, !.hung = hung]
  /\ UNCHANGED <<cancelled, tCtxExpired>>
  /\ UNCHANGED outsideCancel

\* the server answers or the command exits, with or without an error
CallReturns(res) ==
  /\ extcall.active
  /\ ~extcall.hung
  /\ res \in {"ok", "error"}
  /\ extcall' = [extcall EXCEPT !.active = FALSE, !.result = res]
  /\ UNCHANGED <<cancelled, tCtxExpired>>
  /\ UNCHANGED outsideCancel

\* net/http aborts the request and os/exec kills the command when the
\* context they were given is done; the call returns the context's error
CallAborted ==
  /\ extcall.active
  /\ ContextDone(CurrentCall)
  /\ extcall' = [extcall EXCEPT !.active = FALSE, !.hung = FALSE,
                                !.result = "ctx"]
  /\ UNCHANGED <<cancelled, tCtxExpired>>
  /\ UNCHANGED outsideCancel

\* part_004 line 26: the 20 seconds of tCtx run out during TypeText
DeadlinePasses ==
  /\ extcall.stage >= 4
  /\ ~tCtxExpired
  /\ tCtxExpired' = TRUE
  /\ UNCHANGED <<cancelled, extcall>>
  /\ UNCHANGED outsideCancel

\* main.go lines 1208-1213: shutdown() calls app.cancel()
Cancel ==
  /\ ~cancelled
  /\ cancelled' = TRUE
  /\ UNCHANGED <<tCtxExpired, extcall>>
  /\ UNCHANGED outsideCancel

NextCancel ==
  \/ \E hung \in BOOLEAN : CallStart(hung)
  \/ \E res \in {"ok", "error"} : CallReturns(res)
  \/ CallAborted
  \/ DeadlinePasses
  \/ Cancel

SpecCancel == Init /\ [][NextCancel]_vars

\* the runtime goes on serving contexts, the network and child processes
SpecCancelFair ==
  SpecCancel /\ WF_vars(CallAborted)
             /\ WF_vars(\E res \in {"ok", "error"} : CallReturns(res))

(***************************************************************************)
(* Configuration: config.Load (src/pkg/config/config.go).  Temperatures    *)
(* are counted in tenths: 5 is 0.5.                                        *)
(***************************************************************************)

\* lines 38-72: the fields of the file merged into cfg
MergeFile(cfg, file) ==
  IF file.kind # "object" THEN cfg
  ELSE
    LET raw == file.raw
        Str(k, old) ==
          IF raw[k].t = "string" /\ raw[k].s # "" THEN raw[k].s ELSE old
        Bool(k, old) == IF raw[k].t = "bool" THEN raw[k].b ELSE old
    IN  [GROQ_API_KEY |-> Str("groq_api_key", cfg.GROQ_API_KEY),
         Hotkey |-> Str("hotkey", cfg.Hotkey),
         AudioDevice |-> Str("audio_device", cfg.AudioDevice),
         DisableNotifications |->
           Bool("disable_notifications", cfg.DisableNotifications),
         Verbose |-> Bool("verbose", cfg.Verbose),
         Model |-> Str("model", cfg.Model),
         Temperature |->
           IF raw["temperature"].t = "float64" THEN raw["temperature"].n
           ELSE cfg.Temperature,
         AutoReturn |-> Bool("auto_return", cfg.AutoReturn)]

\* lines 75-105: the environment variables written over cfg
OverrideEnv(cfg, env) ==
  LET Str(n, old) == IF env[n] # "" THEN env[n] ELSE old
      tempStr == env["VOICE_TYPE_TEMPERATURE"]
  IN  [GROQ_API_KEY |-> Str("GROQ_API_KEY", cfg.GROQ_API_KEY),
       Hotkey |-> Str("VOICE_TYPE_HOTKEY", cfg.Hotkey),
       AudioDevice |-> Str("VOICE_TYPE_AUDIO_DEVICE", cfg.AudioDevice),
       DisableNotifications |->
         IF env["VOICE_TYPE_NOTIFICATIONS"] = "0" THEN TRUE
         ELSE cfg.DisableNotifications,
       Verbose |->
         IF env["VOICE_TYPE_VERBOSE"] = "1" THEN TRUE ELSE cfg.Verbose,
       Model |-> Str("VOICE_TYPE_MODEL", cfg.Model),
       Temperature |->
         IF tempStr # "" /\ Sscanf(tempStr).n = 1 THEN Sscanf(tempStr).temp
         ELSE cfg.Temperature,
       AutoReturn |-> cfg.AutoReturn]

\* Load(): the configuration and the error it returns
Load(env, file) ==
  [done |-> TRUE,
   cfg |-> OverrideEnv(MergeFile(DefaultConfig, file), env),
   err |-> "nil"]

\* os.Setenv / os.Unsetenv before the program reads its configuration
Setenv(n, v) ==
  /\ conf.env[n] # v
  /\ conf' = [conf EXCEPT !.env[n] = v, !.ret = NotLoaded]
  /\ UNCHANGED outsideConfig

\* the user's config.json is written, damaged or removed
WriteFile(f) ==
  /\ conf.file # f
  /\ conf' = [conf EXCEPT !.file = f, !.ret = NotLoaded]
  /\ UNCHANGED outsideConfig

\* cfg, err := config.Load()
LoadConfig ==
  /\ ~conf.ret.done
  /\ conf' = [conf EXCEPT !.ret = Load(conf.env, conf.file)]
  /\ UNCHANGED outsideConfig

NextConfig ==
  \/ \E n \in EnvNames : \E v \in EnvValues(n) : Setenv(n, v)
  \/ \E f \in ConfigFiles : WriteFile(f)
  \/ LoadConfig

SpecConfig == Init /\ [][NextConfig]_vars

(***************************************************************************)
(* Focus handling before the delivery (main.go lines 860-879, typing       *)
(* system GetActiveWindowID / ActivateWindow)                              *)
(***************************************************************************)

\* main.go lines 773-774: startRecording shows the tool's window and asks
\* for the focus; the window manager grants it or not
ShowWindow(granted) ==
  /\ focus.pc = "launch"
  /\ focus' = [focus EXCEPT
                 !.pc = "shown",
                 !.visible = TRUE,
                 !.before = IF granted THEN focus.active ELSE @,
                 !.active = IF granted THEN ToolWindow ELSE @]
  /\ UNCHANGED outsideFocus

\* the user gives the focus to a window, at any time before the delivery
UserFocus(w) ==
  /\ focus.pc # "typing"
  /\ w # focus.active
  /\ w = ToolWindow => focus.visible
  /\ focus' = [focus EXCEPT
                 !.active = w,
                 !.before = IF w = ToolWindow THEN focus.active ELSE @]
  /\ UNCHANGED outsideFocus

\* GetActiveWindowID(): "" without xdotool or when it fails, else the
\* window that is active now
GetActiveWindowID(tool, failed) ==
  IF ~tool \/ failed THEN "" ELSE focus.active

\* main.go line 865: prevWindowID := app.typer.GetActiveWindowID()
CaptureWindow(tool, failed) ==
  /\ focus.pc = "shown"
  /\ focus' = [focus EXCEPT
                 !.pc = "captured",
                 !.prevWindowID = GetActiveWindowID(tool, failed)]
  /\ UNCHANGED outsideFocus

\* main.go line 868: app.window.Hide(); when the tool's window had the
\* focus the window manager hands it to a window of its choice
HideToolWindow(w) ==
  /\ focus.pc = "captured"
  /\ w \in AppWindows
  /\ focus.active # ToolWindow => w = focus.active
  /\ focus' = [focus EXCEPT !.pc = "hidden", !.visible = FALSE, !.active = w]
  /\ UNCHANGED outsideFocus

\* main.go lines 871-873 and ActivateWindow: nothing is done for "" or
\* without xdotool; xdotool's failure is dropped; a hidden window cannot be
\* given the focus
ActivateWindow(tool, failed) ==
  /\ focus.pc = "hidden"
  /\ LET id == focus.prevWindowID
         done == /\ id # ""
                 /\ tool
                 /\ ~failed
                 /\ id = ToolWindow => focus.visible
     IN  focus' = [focus EXCEPT
                     !.pc = "restored",
                     !.active = IF done THEN id ELSE @,
                     !.activated = IF done THEN id ELSE @]
  /\ UNCHANGED outsideFocus

\* main.go lines 876-879: after the sleep, TypeText starts its first strategy
StartDelivery ==
  /\ focus.pc = "restored"
  /\ focus' = [focus EXCEPT !.pc = "typing"]
  /\ UNCHANGED outsideFocus

NextFocus ==
  \/ \E granted \in BOOLEAN : ShowWindow(granted)
  \/ \E w \in Windows : UserFocus(w)
  \/ \E tool \in BOOLEAN, failed \in BOOLEAN : CaptureWindow(tool, failed)
  \/ \E w \in AppWindows : HideToolWindow(w)
  \/ \E tool \in BOOLEAN, failed \in BOOLEAN : ActivateWindow(tool, failed)
  \/ StartDelivery

SpecFocus == Init /\ [][NextFocus]_vars

(***************************************************************************)
(* Signals of the active instance (main.go lines 668-682): the state after *)
(* launch, with the PID file written, the recording started at line 706    *)
(* and app.a.Run() running                                                 *)
(***************************************************************************)

\* signal.Notify(sigChan, ...) with make(chan os.Signal, 1): the runtime
\* sends without blocking, a signal that finds the channel full is dropped
Notify(ch, sig) == IF Len(ch) < 1 THEN Append(ch, sig) ELSE ch

\* the kernel delivers sig to the process
KernelDelivers(sig) ==
  /\ ~sg.exited
  /\ sg.n < MaxSignals
  /\ sg' = [sg EXCEPT
              !.chan = Notify(sg.chan, sig),
              !.delivered = @ \/ sig = "SIGTERM",
              !.n = @ + 1]
  /\ UNCHANGED outsideSignal

\* for sig := range sigChan: SIGUSR1 enters toggleRecording, SIGINT and
\* SIGTERM call app.a.Quit()
Receive ==
  /\ ~sg.exited
  /\ sg.hpc = "recv"
  /\ sg.chan # <<>>
  /\ sg' = [sg EXCEPT
              !.chan = Tail(sg.chan),
              !.hpc = IF Head(sg.chan) = "SIGUSR1" THEN "toggle" ELSE @,
              !.quit = @ \/ Head(sg.chan) = "SIGTERM"]
  /\ UNCHANGED outsideSignal

\* toggleRecording returns to the handler's loop: the toggle was rejected
\* (debounce, processing) or it stopped or started the recording
ToggleReturns(accepted) ==
  /\ ~sg.exited
  /\ sg.hpc = "toggle"
  /\ sg' = [sg EXCEPT
              !.hpc = "recv",
              !.recording = IF accepted THEN ~@ ELSE @]
  /\ UNCHANGED outsideSignal

\* the session quits by itself: the processing goroutine at its end, or the
\* 60 s timer, which spares a session that records
SessionQuit ==
  /\ ~sg.exited
  /\ ~sg.recording
  /\ ~sg.quit
  /\ sg' = [sg EXCEPT !.quit = TRUE]
  /\ UNCHANGED outsideSignal

\* lines 720-722 and 635: Run returns after Quit, shutdown(), main returns
\* and the deferred os.Remove(pidFile) runs
MainReturns ==
  /\ ~sg.exited
  /\ sg.quit
  /\ sg' = [sg EXCEPT !.exited = TRUE, !.pidFile = FALSE]
  /\ UNCHANGED outsideSignal

NextSignal ==
  \/ \E sig \in Signals : KernelDelivers(sig)
  \/ Receive
  \/ \E accepted \in BOOLEAN : ToggleReturns(accepted)
  \/ SessionQuit
  \/ MainReturns

SpecSignal == Init /\ [][NextSignal]_vars

\* the handler goroutine and the main goroutine keep running, and a session
\* that does not record ends
SpecSignalFair ==
  SpecSignal /\ WF_vars(Receive)
             /\ WF_vars(\E accepted \in BOOLEAN : ToggleReturns(accepted))
             /\ WF_vars(SessionQuit)
             /\ WF_vars(MainReturns)

(***************************************************************************)
(* Keyboard device resolution (part_001 lines 194-214).  A line of the     *)
(* output is the sequence of its words; "id=" and the identifier are two   *)
(* of them.                                                                *)
(***************************************************************************)

\* devices of an X server: the master devices, the XTEST slaves, real
\* keyboards, and a pointer whose product name has the word Keyboard in it
XinputDevices ==
  {[name |-> <<"Virtual", "core", "keyboard">>, id |-> "3",
    use |-> <<"master", "keyboard">>],
   [name |-> <<"Virtual", "core", "XTEST", "keyboard">>, id |-> "5",
    use |-> <<"slave", "keyboard">>],
   [name |-> <<"Power", "Button">>, id |-> "6",
    use |-> <<"slave", "keyboard">>],
   [name |-> <<"AT", "Translated", "keyboard">>, id |-> "13",
    use |-> <<"slave", "keyboard">>],
   [name |-> <<"USB", "Keyboard", "Mouse">>, id |-> "9",
    use |-> <<"slave", "pointer">>],
   [name |-> <<"Virtual", "core", "XTEST", "pointer">>, id |-> "4",
    use |-> <<"slave", "pointer">>]}

\* the line xinput prints for a device: name, id=N, [use]
XinputLine(d) == d.name \o <<"id=", d.id>> \o d.use

\* strings.Contains(line, word)
Contains(line, word) == \E i \in 1..Len(line) : line[i] = word

\* strings.Fields(strings.Split(line, "id=")[1])[0]: the word after "id="
IdPart(line) ==
  LET i == CHOOSE j \in 1..Len(line) :
             line[j] = "id=" /\ \A k \in 1..(j - 1) : line[k] # "id="
  IN  line[i + 1]

\* lines 200-203: the condition of the loop
IsSlaveKeyboardLine(line) ==
  /\ Contains(line, "slave")
  /\ Contains(line, "keyboard") \/ Contains(line, "Keyboard")
  /\ ~Contains(line, "XTEST")
  /\ Contains(line, "id=")

\* findKeyboardID over the lines of the output
RECURSIVE findKeyboardID(_)
findKeyboardID(lines) ==
  IF lines = <<>> THEN "3"
  ELSE IF IsSlaveKeyboardLine(Head(lines)) THEN IdPart(Head(lines))
  ELSE findKeyboardID(Tail(lines))

\* one more device is plugged in before the listener starts
DeviceListed(d) ==
  /\ ~kb.done
  /\ Len(kb.devices) < MaxDevices
  /\ \A i \in 1..Len(kb.devices) : kb.devices[i] # d
  /\ kb' = [kb EXCEPT !.devices = Append(@, d)]
  /\ UNCHANGED outsideKeyboard

\* line 75: keyboardID := l.findKeyboardID()
FindKeyboard ==
  /\ ~kb.done
  /\ kb' = [kb EXCEPT
              !.done = TRUE,
              !.id = findKeyboardID([i \in 1..Len(kb.devices) |->
                                       XinputLine(kb.devices[i])])]
  /\ UNCHANGED outsideKeyboard

NextKeyboard ==
  \/ \E d \in XinputDevices : DeviceListed(d)
  \/ FindKeyboard

SpecKeyboard == Init /\ [][NextKeyboard]_vars

(***************************************************************************)
(* Audio capture: audio.System (src/internal/audio/system.go).  The fields *)
(* are shared without a lock; the steps below are the statements of the    *)
(* three functions, interleaved.                                           *)
(***************************************************************************)

\* the readAudio goroutines that have not returned
LiveReaders == {r \in Recordings : au.reader[r].pc \notin {"none", "done"}}

\* lines 49-84: StartRecording; "already recording" changes nothing
StartRecording ==
  /\ au.cpc = "idle"
  /\ ~au.isRecording
  /\ au.rec < MaxRecordings
  /\ au' = [au EXCEPT
              !.audioBuffer = <<>>,
              !.rec = @ + 1,
              !.stdout = au.rec + 1,
              !.open = TRUE,
              !.isRecording = TRUE,
              !.handed = FALSE,
              !.reader[au.rec + 1] = [pc |-> "check", on |-> 0, err |-> FALSE]]
  /\ UNCHANGED outsideAudio

\* line 89: for s.isRecording, then line 90: the goroutine calls Read on
\* what s.stdout is now
ReaderLoop(r) ==
  /\ au.reader[r].pc = "check"
  /\ au' = [au EXCEPT
              !.reader[r] = IF au.isRecording
                            THEN [pc |-> "read", on |-> au.stdout,
                                  err |-> FALSE]
                            ELSE [pc |-> "done", on |-> 0, err |-> FALSE]]
  /\ UNCHANGED outsideAudio

\* line 90: Read returns a chunk of the stream it is on (also one that was
\* in the pipe when it was closed)
ReadReturns(r) ==
  /\ au.reader[r].pc = "read"
  /\ Len(au.audioBuffer) < MaxChunks
  /\ au' = [au EXCEPT !.reader[r].pc = "got"]
  /\ UNCHANGED outsideAudio

\* lines 94-96: Read returns an error on a closed pipe and the loop ends
ReadFails(r) ==
  /\ au.reader[r].pc = "read"
  /\ ~(au.open /\ au.stdout = au.reader[r].on)
  /\ au' = [au EXCEPT !.reader[r] = [pc |-> "done", on |-> 0, err |-> TRUE]]
  /\ UNCHANGED outsideAudio

\* lines 91-93: s.audioBuffer = append(s.audioBuffer, buffer[:n]...)
ReaderAppends(r) ==
  /\ au.reader[r].pc = "got"
  /\ au' = [au EXCEPT
              !.audioBuffer = Append(@, au.reader[r].on),
              !.reader[r].pc = "check"]
  /\ UNCHANGED outsideAudio

\* lines 102-116: the "not recording" return, or isRecording = false, Kill,
\* Wait and stdout.Close()
StopBegins ==
  /\ au.cpc = "idle"
  /\ au.isRecording
  /\ au' = [au EXCEPT !.isRecording = FALSE, !.open = FALSE, !.cpc = "copy"]
  /\ UNCHANGED outsideAudio

\* lines 118-128: ErrAudioTooShort for an empty buffer, else the copy is
\* returned and s.audioBuffer = nil
StopReturns ==
  /\ au.cpc = "copy"
  /\ au' = [au EXCEPT
              !.cpc = "idle",
              !.result = au.audioBuffer,
              !.handed = au.audioBuffer # <<>>,
              !.audioBuffer = IF au.audioBuffer = <<>> THEN @ ELSE <<>>]
  /\ UNCHANGED outsideAudio

NextAudio ==
  \/ StartRecording
  \/ \E r \in Recordings : ReaderLoop(r)
  \/ \E r \in Recordings : ReadReturns(r)
  \/ \E r \in Recordings : ReadFails(r)
  \/ \E r \in Recordings : ReaderAppends(r)
  \/ StopBegins
  \/ StopReturns

SpecAudio == Init /\ [][NextAudio]_vars

(***************************************************************************)
(* Listener.Close and the polling loops (part_001 lines 31-41, 97-102,     *)
(* 219-224, 256-261, 345-352)                                              *)
(***************************************************************************)

\* lines 31-41: Initialize makes stopChan and detectAndSetup starts one of
\* the three loops
InitializeListener(kind) ==
  /\ ~cl.panicked
  /\ cl.stopChan = "nil"
  /\ cl' = [cl EXCEPT !.stopChan = "open", !.loop = "select", !.kind = kind]
  /\ UNCHANGED outsideClose

\* lines 346-348: the select of Close; receiving from a closed channel
\* succeeds, from a nil or an open one it does not and default is taken
CloseSelects(c) ==
  /\ ~cl.panicked
  /\ cl.closer[c] = "idle"
  /\ cl.calls < MaxCloses
  /\ cl' = [cl EXCEPT
              !.calls = @ + 1,
              !.closer[c] = IF cl.stopChan = "closed" THEN "stop"
                            ELSE "close"]
  /\ UNCHANGED outsideClose

\* line 349: close(l.stopChan); closing a nil or a closed channel panics
CloseCloses(c) ==
  /\ ~cl.panicked
  /\ cl.closer[c] = "close"
  /\ cl' = IF cl.stopChan = "open"
           THEN [cl EXCEPT !.stopChan = "closed", !.closer[c] = "stop"]
           ELSE [cl EXCEPT !.panicked = TRUE]
  /\ UNCHANGED outsideClose

\* line 351: l.Stop(), and Close returns
CloseReturns(c) ==
  /\ ~cl.panicked
  /\ cl.closer[c] = "stop"
  /\ cl' = [cl EXCEPT !.closer[c] = "idle", !.returned = TRUE]
  /\ UNCHANGED outsideClose

\* the select at the top of each loop: return when stopChan is closed
LoopSelects ==
  /\ ~cl.panicked
  /\ cl.loop = "select"
  /\ cl' = [cl EXCEPT
              !.loop = IF cl.stopChan = "closed" THEN "exited" ELSE "sample"]
  /\ UNCHANGED outsideClose

\* the rest of an iteration: the query, firePress when the chord went down
\* (x11, wayland), the hand-over to the x11 loop when xdotool has appeared
\* (generic), and the sleep
LoopSamples(fire, xdotool) ==
  /\ ~cl.panicked
  /\ cl.loop = "sample"
  /\ cl' = [cl EXCEPT
              !.loop = "select",
              !.kind = IF cl.kind = "generic" /\ xdotool THEN "x11" ELSE @,
              !.late = @ \/ (cl.kind # "generic" /\ fire /\ cl.returned)]
  /\ UNCHANGED outsideClose

NextClose ==
  \/ \E kind \in LoopKinds : InitializeListener(kind)
  \/ \E c \in Closers : CloseSelects(c)
  \/ \E c \in Closers : CloseCloses(c)
  \/ \E c \in Closers : CloseReturns(c)
  \/ LoopSelects
  \/ \E fire \in BOOLEAN, xdotool \in BOOLEAN : LoopSamples(fire, xdotool)

SpecClose == Init /\ [][NextClose]_vars

\* the polling goroutine and the goroutines inside Close keep running
SpecCloseFair ==
  SpecClose /\ WF_vars(LoopSelects)
            /\ WF_vars(\E fire \in BOOLEAN, xdotool \in BOOLEAN :
                         LoopSamples(fire, xdotool))
            /\ \A c \in Closers :
                 WF_vars(CloseCloses(c)) /\ WF_vars(CloseReturns(c))

Next ==
  \/ Tick
  \/ \E t \in Callbacks : HotkeyPress(t)
  \/ \E sig \in Signals : SignalArrive(sig)
  \/ SignalToggle
  \/ SignalQuit
  \/ Return
  \/ \E t \in Threads : StartAudio(t)
  \/ \E t \in Threads : SetRecording(t)
  \/ Capture
  \/ \E t \in Togglers : StopAudio(t)
  \/ \E t \in Togglers : StopFailed(t)
  \/ \E t \in Togglers : ClearRecording(t)
  \/ \E t \in Togglers : SetProcessing(t)
  \/ \E g \in Running, e \in TranscribeErrors : TranscribeFails(g, e)
  \/ \E g \in Running, txt \in Texts : TranscribeOk(g, txt)
  \/ \E g \in Running : ShowError(g)
  \/ \E g \in Running : ProcQuit(g)
  \/ \E g \in Running : HideWindow(g)
  \/ \E g \in Running, ok \in BOOLEAN : TypeText(g, ok)
  \/ \E g \in Running : Deferred(g)
  \/ StartHotkey
  \/ SetLastToggle
  \/ WatchdogFire
  \/ Shutdown

Spec == Init /\ [][Next]_vars

(***************************************************************************)
(* Session controller: properties                                          *)
(***************************************************************************)

\* everything a toggle could start, stop or move is left as it was
SessionUntouched ==
  UNCHANGED <<sinceToggle, isRecording, isProcessing, sIsRecording,
              audioBuffer, audioData, err, quit, proc>>

\* thread t, not inside a toggle before the step, is turned away by the
\* guard or is not involved in the step at all
TurnedAway(t) ==
  /\ pc'[t] \in {"idle", "ret"}
  /\ pc'[t] # pc[t] => (SessionUntouched /\ \A u \in Threads \ {t} : pc'[u] = pc[u])

\* C1: a toggle from any source that arrives less than 600 ms after the last
\* accepted toggle starts or stops no capture, leaves isRecording and
\* isProcessing unchanged and does not move lastToggle; its caller only
\* returns.
C1_DebouncedToggleIsNoOp ==
  [][\A t \in Togglers :
       /\ (pc[t] = "idle" /\ sinceToggle < DebounceMs) => TurnedAway(t)
       /\ pc[t] = "ret" => pc'[t] \in {"ret", "idle"}]_vars

\* a second toggle one tick after the accepted one was dropped and the
\* session is still Recording
C1_Witness ==
  /\ pc[SigHandler] = "ret"
  /\ sinceToggle = TickMs
  /\ sinceToggle < DebounceMs
  /\ isRecording /\ sIsRecording /\ ~isProcessing

\* C2: while isProcessing is set every toggle is rejected without any state
\* change, whatever the time since the last accepted toggle.
C2_ToggleRejectedWhileProcessing ==
  [][\A t \in Togglers :
       (pc[t] = "idle" /\ isProcessing) => TurnedAway(t)]_vars

\* a toggle was turned away after the debounce window had passed, while the
\* delivery of the processing goroutine had just run
C2_Witness ==
  /\ pc[SigHandler] = "ret"
  /\ isProcessing
  /\ sinceToggle = DebounceMs
  /\ \E g \in Running : g.pc = "quitOk"

\* C3: no two toggles are processed at the same time: at most one thread is
\* inside startRecording or stopRecording.
C3_TogglesSerialized ==
  Cardinality({t \in Threads : InTransition(t)}) <= 1

\* C4: when stopRecording returns after a capture of zero bytes it has not
\* set isProcessing, has started no processing goroutine, and the session is
\* terminating (Quit has been called).
C4_EmptyRecordingTerminates ==
  [][\A t \in Togglers :
       (pc[t] = "stopErr" /\ err[t] = "too short" /\ pc'[t] = "idle")
         => (quit' /\ UNCHANGED <<isProcessing, proc>>)]_vars

\* the processing goroutine received a typed failure from Transcribe
Failed(g) == g.terr # "nil"

\* the text the goroutine holds has no character other than white space
Blank(g) == \A i \in DOMAIN g.text : g.text[i] = " "

\* a goroutine takes its next step from position at / arrives at position at
ProcLeaves(at) == \E g \in BagToSet(proc (-) proc') : g.pc = at
ProcReaches(at) == \E g \in BagToSet(proc' (-) proc) : g.pc = at

C6_EmptyTextQuitsSilently ==
  /\ [](\A g \in Running :
          /\ g.pc \in {"hide", "type"} => ~Blank(g)
          /\ g.pc = "quitEmpty" =>
               /\ Blank(g)
               /\ g.calls = 1
               /\ g.typed = 0
               /\ ~g.hid
               /\ ~g.shownErr)
  /\ [][ProcLeaves("quitEmpty") => (quit' /\ ProcReaches("defer"))]_vars

\* a text of white space only was returned and trimmed to the empty text
C6_Witness ==
  \E g \in Running : g.pc = "quitEmpty" /\ g.ws /\ g.text = <<>>

\* C7: for a non-empty text TypeText has run exactly once when it returns,
\* never more than once, and Quit is the next thing the goroutine does,
\* whether TypeText succeeded or failed.
C7_DeliveredExactlyOnce ==
  /\ [](\A g \in Running :
          /\ g.typed <= 1
          /\ g.pc \in {"hide", "type"} => (g.calls = 1 /\ g.typed = 0)
          /\ g.pc \in {"quitOk", "quitTypeFail"} => g.typed = 1
          /\ g.pc = "quitOk" => ~g.typeErr
          /\ g.pc = "quitTypeFail" => g.typeErr)
  /\ [][proc' # proc =>
        /\ ProcLeaves("hide") => ProcReaches("type")
        /\ ProcLeaves("type") =>
             (ProcReaches("quitOk") \/ ProcReaches("quitTypeFail"))
        /\ (ProcLeaves("quitOk") \/ ProcLeaves("quitTypeFail"))
             => (quit' /\ ProcReaches("defer"))]_vars

\* a delivery that failed has run once and the goroutine is about to quit
C7_Witness ==
  \E g \in Running :
    /\ g.pc = "quitTypeFail"
    /\ g.typed = 1
    /\ g.typeErr

\* C14: the idle watchdog does not terminate a session in which a recording
\* has begun: when its timer fires while the session is Recording, Processing
\* or Delivering, it calls no Quit.
C14_WatchdogSparesStartedSession ==
  [][(~watchdog /\ watchdog' /\ (isRecording \/ isProcessing))
       => quit' = quit]_vars

(***************************************************************************)
(* Single-instance coordinator: properties                                 *)
(***************************************************************************)

\* invocation p takes the step that leaves position at
Leaves(p, at) == cpc[p] = at /\ cpc'[p] # at

\* C8: a plain invocation whose probe finds the recorded process alive sends
\* SIGUSR1 to that process and exits 0; it never writes the PID file and so
\* never reaches audio initialisation or capture.
C8_SecondInvocationDefers ==
  /\ [](\A p \in Invocations :
          (mode[p] = "plain" /\ (cpc[p] = "forward" \/ sent[p] # <<>>)) =>
             /\ ~wrote[p]
             /\ cpc[p] \in {"forward", "exited"}
             /\ cpc[p] = "exited" =>
                  /\ exitCode[p] = 0
                  /\ sent[p][1].sig = "SIGUSR1"
                  /\ sent[p][1].to = oldPid[p])
  /\ [][\A p \in Invocations :
          /\ (mode[p] = "plain" /\ Leaves(p, "probe")
                /\ oldPid[p] \in Invocations
                /\ cpc[oldPid[p]] \notin {"none", "exited"})
               => cpc'[p] = "forward"
          /\ (mode[p] = "plain" /\ Leaves(p, "forward"))
               => (cpc'[p] = "exited" /\ sent'[p] # <<>>)]_vars

\* the second invocation has exited 0 after signalling the active instance,
\* which still owns the PID file and has received the toggle
C8_Witness ==
  \E p, q \in Invocations :
    /\ p # q
    /\ mode[p] = "plain" /\ cpc[p] = "exited" /\ exitCode[p] = 0
    /\ ~wrote[p]
    /\ sent[p] = <<[sig |-> "SIGUSR1", to |-> q, ok |-> TRUE]>>
    /\ cpc[q] = "active" /\ "SIGUSR1" \in sigs[q]
    /\ pidFile = <<q>>

C10_StopExitCode ==
  \A p \in Invocations :
    (mode[p] = "stop" /\ cpc[p] = "exited") =>
       /\ exitCode[p] \in {0, 1}
       /\ exitCode[p] = 0 <=> (sent[p] # <<>> /\ sent[p][1].ok)

\* C11: an invocation whose toggle signal could not be delivered, because the
\* process recorded in the PID file is dead, does not exit without a session:
\* it goes on to claim the lock and becomes the active instance.
C11_FailedSendProceedsAsPrimary ==
  \A p \in Invocations :
    (sent[p] # <<>> /\ sent[p][1].sig = "SIGUSR1" /\ ~sent[p][1].ok)
      => (cpc[p] # "exited" \/ wrote[p])

\* C12: of the invocations that start concurrently at most one is, at any
\* time, past the claim of the lock and alive as the active instance.
C12_AtMostOneActive ==
  Cardinality({p \in Invocations : cpc[p] \in {"setup", "active"}}) <= 1

\* C13: an instance that has claimed the PID lock and has exited, by whatever
\* path, has left no PID file that records it.
C13_LockRemovedOnExit ==
  \A p \in Invocations :
    (wrote[p] /\ cpc[p] = "exited") => pidFile # <<p>>

(***************************************************************************)
(* Delivery engine: properties                                             *)
(***************************************************************************)

\* the commands that insert the text: the paste chords and the direct typing
InsertOps == {"chord-ctrlv", "chord-shiftins", "type"}

\* the insertions of the delivered text made by a strategy
Inserted(by) == {i \in DOMAIN caret : caret[i].by = by /\ caret[i].what = dtext}

\* the commands of the given kinds for which a process was started
Tried(ops) == {i \in DOMAIN dlog : dlog[i].op \in ops /\ dlog[i].res # "expired"}

\* the insertion commands that ended with exit 0
Succeeded == {i \in DOMAIN dlog : dlog[i].op \in InsertOps /\ dlog[i].res = "ok"}

\* C15: when TypeText has returned, exactly one strategy has inserted the
\* text: after a selection-buffer paste that put the text at the caret direct
\* typing was not attempted, after one that did not it was attempted (where a
\* typing tool exists), and the text was not inserted twice.
C15_ExactlyOneStrategy ==
  dret # "none" =>
    /\ Inserted("paste") # {} => Tried({"type"}) = {}
    /\ (Inserted("paste") = {} /\ denv.tools \cap {"ydotool", "wtype", "xdotool"} # {})
         => Tried({"type"}) # {}
    /\ Cardinality(Inserted("paste")) + Cardinality(Inserted("type")) <= 1

\* C16: the general clipboard keeps the content the user had in it: no command
\* of the chain writes it and no paste chord reads it.
C16_ClipboardUntouched ==
  /\ clipboard = UserClip
  /\ \A i \in DOMAIN dlog : dlog[i].op \notin {"set-clipboard", "chord-ctrlv"}

\* C17: TypeText returns the aggregate error exactly when no insertion command
\* succeeded, and after an insertion command has succeeded no other is run.
C17_ErrorIffChainExhausted ==
  /\ dret # "none" => (dret = "error" <=> Succeeded = {})
  /\ \A i \in Succeeded : \A j \in DOMAIN dlog :
       j > i => dlog[j].op \notin InsertOps

\* C18: a typing command that follows a command that hung until its deadline
\* still has a deadline of its own: it never finds its context expired.
C18_FreshDeadlinePerStrategy ==
  \A i \in DOMAIN dlog : dlog[i].op = "type" => dlog[i].res # "expired"

\* C19: Enter is pressed only with pressEnter set and after an insertion
\* command has succeeded, at most once, and its result does not change the
\* success of the delivery.
C19_EnterOnlyAfterSuccess ==
  /\ \A i \in Tried({"enter"}) :
       /\ denter
       /\ \E j \in Succeeded : j < i
  /\ Cardinality(Tried({"enter"})) <= 1
  /\ (dret # "none" /\ Succeeded # {}) => dret = "nil"

(***************************************************************************)
(* Hotkey detector: properties                                             *)
(***************************************************************************)

CodeSet(codes) == {codes[i] : i \in DOMAIN codes}

\* the last sample reported a code of the component down
ComponentDown(codes) == CodeSet(codes) \cap hsample.down # {}

C22_EdgeFollowsChord ==
  hpc = "poll" => (isPressed <=> hsample.chord)

\* C23: when resolveKeycodes returned no code for a component, the loop uses
\* the hard-coded defaults for it (37 and 105 for Ctrl, 65 for Space), the
\* warning was logged, and the detector is in its polling loop all the same.
C23_DefaultsForUnresolved ==
  hpc \in {"poll", "stopped"} =>
    /\ hcfg.resCtrl = <<>> =>
         (hcfg.ctrlCodes = <<"37", "105">> /\ hcfg.warned)
    /\ hcfg.resSpace = <<>> =>
         (hcfg.spaceCodes = <<"65">> /\ hcfg.warned)
    /\ hcfg.ctrlCodes # <<>>
    /\ hcfg.spaceCodes # <<>>

\* xmodmap named Control_L but not space: the loop runs on the defaults and
\* has taken a sample
C23_Witness ==
  /\ hpc = "poll"
  /\ hcfg.resCtrl = <<"37">>
  /\ hcfg.resSpace = <<>>
  /\ hcfg.spaceCodes = <<"65">>
  /\ hcfg.warned
  /\ hsample.down # {}

\* the polling goroutines that are running
ActiveLoops ==
  {l \in {"x11", "generic", "wayland"} :
     \/ l = "x11" /\ hpc \in {"setup", "poll"}
     \/ l = "generic" /\ listener.generic = "poll"
     \/ l = "wayland" /\ listener.wayland = "poll"}

\* C24: Initialize returns no error whatever tools are there; while the
\* degraded poll runs no press has been dispatched; a detector whose degraded
\* poll keeps finding xdotool (and is not closed) does not stay in that poll;
\* and after the hand-over the degraded poll is gone and pollKeyPressX11 is
\* the one polling loop.
C24_DegradedPollUpgrades ==
  /\ [](listener.ret \in {"none", "nil"})
  /\ [](listener.generic = "poll" => (presses = 0 /\ hpc = "none"))
  /\ [](Cardinality(ActiveLoops) <= 1)
  /\ [](listener.generic = "done" =>
          (hpc # "none" /\ (~listener.closed => ActiveLoops = {"x11"})))
  /\ []<>(~ToolAvailable("xdotool") \/ listener.closed
            \/ listener.generic # "poll")

\* the degraded poll has handed over and the real loop has dispatched a press
C24_Witness ==
  /\ listener.ret = "nil"
  /\ listener.generic = "done"
  /\ hpc = "poll"
  /\ presses = 1
  /\ ~listener.closed

(***************************************************************************)
(* Audio capture: properties                                               *)
(***************************************************************************)

\* C25: StopRecording called while no capture is active returns an error and
\* leaves the capture state as it was; StopRecording on an active capture
\* that has read zero bytes returns an empty result and no error.
C25_StopRecordingContract ==
  [][\A t \in Togglers :
       (pc[t] = "stop" /\ pc'[t] # "stop") =>
         /\ ~sIsRecording =>
              /\ err'[t] # "nil"
              /\ UNCHANGED <<sIsRecording, audioBuffer>>
         /\ (sIsRecording /\ audioBuffer = "empty") =>
              /\ err'[t] = "nil"
              /\ audioData'[t] = "empty"]_vars

(***************************************************************************)
(* The session mutex: properties                                           *)
(***************************************************************************)

\* C26: a thread that executes a line reading or writing lastToggle,
\* isRecording or isProcessing holds app.mu while it does, on every path
\* that runs once the signal handler and the hotkey listener are started,
\* the assignment of lastToggle at startup included.
C26_GuardFieldsUnderMutex ==
  [][\A t \in LockThreads :
       (lpc[t] \in Lines /\ lpc'[t] # lpc[t]
          /\ Instr(lpc[t]).fields \cap GuardFields # {}) => mu = t]_vars

(***************************************************************************)
(* Cancellation: properties                                                *)
(***************************************************************************)

\* C27: once the process-wide cancellation is raised, whatever call the
\* processing goroutine is waiting in (transcription, window query, window
\* activation, selection write, paste chord, character synthesis) returns:
\* the goroutine does not stay blocked in it.
C27_CancelReleasesEveryCall ==
  (cancelled /\ extcall.active) ~> ~extcall.active

(***************************************************************************)
(* Session controller: delivery failure                                    *)
(***************************************************************************)

\* C28: when TypeText has returned its failure (the whole chain exhausted)
\* the goroutine has put the error indicator on screen before it calls Quit,
\* as it does after a failed transcription.
C28_DeliveryFailureShown ==
  \A g \in Running :
    g.pc \in {"quitErr", "quitTypeFail"} => g.shownErr

(***************************************************************************)
(* Session controller: the toggle of a second invocation                   *)
(***************************************************************************)

\* the signal handler takes a SIGUSR1 (the toggle a second invocation sent)
\* out of sigChan and runs toggleRecording on it
TookToggle ==
  /\ pc[SigHandler] = "idle"
  /\ sigChan # <<>>
  /\ Head(sigChan) = "SIGUSR1"
  /\ sigChan' = Tail(sigChan)

EnvGives(n) ==
  CASE n = "VOICE_TYPE_TEMPERATURE" -> conf.env[n] = "0.5"
    [] n \in {"VOICE_TYPE_NOTIFICATIONS", "VOICE_TYPE_VERBOSE"} ->
         conf.env[n] \in {"0", "1"}
    [] OTHER -> conf.env[n] # ""

\* what the config file gives for a key: a value of the field's type, and
\* for a text a non-empty one
FileGives(k, type) ==
  /\ conf.file.kind = "object"
  /\ conf.file.raw[k].t = type
  /\ type = "string" => conf.file.raw[k].s # ""

\* environment over file over default
Precedence(n, fromEnv, k, type, fromFile, default) ==
  IF EnvGives(n) THEN fromEnv
  ELSE IF FileGives(k, type) THEN fromFile
  ELSE default

\* C30: after Load, each of hotkey, audio device, model, temperature,
\* notifications and verbosity has the value its environment variable
\* gives, else the value the config file gives, else the built-in default;
\* with no environment variable set and no file the defaults are returned;
\* and Load reports no error.
C30_ConfigPrecedence ==
  conf.ret.done =>
    LET cfg == conf.ret.cfg
        raw == conf.file.raw
    IN  /\ conf.ret.err = "nil"
        /\ cfg.Hotkey =
             Precedence("VOICE_TYPE_HOTKEY", conf.env["VOICE_TYPE_HOTKEY"],
                        "hotkey", "string", raw["hotkey"].s,
                        DefaultConfig.Hotkey)
        /\ cfg.AudioDevice =
             Precedence("VOICE_TYPE_AUDIO_DEVICE",
                        conf.env["VOICE_TYPE_AUDIO_DEVICE"],
                        "audio_device", "string", raw["audio_device"].s,
                        DefaultConfig.AudioDevice)
        /\ cfg.Model =
             Precedence("VOICE_TYPE_MODEL", conf.env["VOICE_TYPE_MODEL"],
                        "model", "string", raw["model"].s,
                        DefaultConfig.Model)
        /\ cfg.Temperature =
             Precedence("VOICE_TYPE_TEMPERATURE", 5,
                        "temperature", "float64", raw["temperature"].n,
                        DefaultConfig.Temperature)
        /\ cfg.DisableNotifications =
             Precedence("VOICE_TYPE_NOTIFICATIONS",
                        conf.env["VOICE_TYPE_NOTIFICATIONS"] = "0",
                        "disable_notifications", "bool",
                        raw["disable_notifications"].b,
                        DefaultConfig.DisableNotifications)
        /\ cfg.Verbose =
             Precedence("VOICE_TYPE_VERBOSE",
                        conf.env["VOICE_TYPE_VERBOSE"] = "1",
                        "verbose", "bool", raw["verbose"].b,
                        DefaultConfig.Verbose)
        /\ (/\ \A n \in EnvNames : conf.env[n] = ""
            /\ conf.file = NoFile) => cfg = DefaultConfig

\* C31: DefaultConfig returns hotkey "F6", an empty audio device, model
\* "whisper-large-v3" and temperature 0: a Load that finds no environment
\* variable and no file returns exactly these.
C31_DefaultConfigValues ==
  (/\ conf.ret.done
   /\ \A n \in EnvNames : conf.env[n] = ""
   /\ conf.file = NoFile) =>
    /\ conf.ret.cfg.Hotkey = "F6"
    /\ conf.ret.cfg.AudioDevice = ""
    /\ conf.ret.cfg.Model = "whisper-large-v3"
    /\ conf.ret.cfg.Temperature = 0

(***************************************************************************)
(* Focus handling: properties                                              *)
(***************************************************************************)

\* C32: when the first delivery strategy starts, the tool's window has been
\* hidden and the captured window has been reactivated, and the captured
\* identifier is that of the window that held the focus before the tool's
\* window took it, never the tool's own window.
C32_FocusRestoredBeforeDelivery ==
  focus.pc = "typing" =>
    /\ ~focus.visible
    /\ focus.prevWindowID # ToolWindow
    /\ focus.before # "" => focus.prevWindowID = focus.before
    /\ focus.prevWindowID # ""
    /\ focus.activated = focus.prevWindowID

(***************************************************************************)
(* Signals: properties                                                     *)
(***************************************************************************)

\* C33: every stop signal delivered to the active instance eventually makes
\* the process quit and remove its PID file, also when it arrives while the
\* handler is inside a toggle or while a signal is pending in the channel.
C33_StopSignalQuits == sg.delivered ~> (sg.exited /\ ~sg.pidFile)

(***************************************************************************)
(* Session controller: the stop of a capture that is not running           *)
(***************************************************************************)

\* thread t leaves the error branch of stopRecording after StopRecording
\* reported "not recording"
AbsorbsNotRecording(t) ==
  /\ pc[t] = "stopErr"
  /\ err[t] = "not recording"
  /\ pc'[t] # "stopErr"

\* C34: a stop that finds the capture not running ("not recording") is
\* absorbed: afterwards the session is Idle (isRecording and isProcessing
\* false), the stop has started no processing goroutine, and the thread
\* returns to its caller without ending the process.
C34_NotRecordingAbsorbed ==
  [][\A t \in Togglers :
       AbsorbsNotRecording(t) =>
         /\ ~isRecording'
         /\ ~isProcessing'
         /\ proc' = proc
         /\ pc'[t] = After(t)
         /\ quit' = quit]_vars

(***************************************************************************)
(* Keyboard device resolution: properties                                  *)
(***************************************************************************)

\* a real keyboard: a slave keyboard device that is not the XTEST one
RealKeyboard(d) ==
  /\ d.use = <<"slave", "keyboard">>
  /\ ~Contains(d.name, "XTEST")

\* the identifier of the first real keyboard of the list, "3" without one
RECURSIVE FirstRealKeyboard(_)
FirstRealKeyboard(devices) ==
  IF devices = <<>> THEN "3"
  ELSE IF RealKeyboard(Head(devices)) THEN Head(devices).id
  ELSE FirstRealKeyboard(Tail(devices))

\* C35: findKeyboardID returns the identifier of the first listed slave
\* keyboard that is not an XTEST device, the default "3" when no line
\* matches, and never an empty identifier.
C35_FirstRealKeyboard ==
  kb.done => kb.id = FirstRealKeyboard(kb.devices) /\ kb.id # ""

(***************************************************************************)
(* Session controller: toggles during the launch                           *)
(***************************************************************************)

\* the launch is under way: main has not yet set lastToggle (line 703), or
\* less than the debounce window has passed since it did
LaunchWindow ==
  pc[Main] \in {"init", "window"} \/ sinceToggle < DebounceMs

\* C36: a toggle from any source that arrives during the launch window is
\* ignored: no hotkey callback and no signal handler enters startRecording
\* or stopRecording, whatever the interleaving with the startup code.
C36_LaunchToggleIgnored ==
  [][\A t \in Togglers :
       (LaunchWindow /\ pc[t] = "idle") =>
         pc'[t] \notin {"start", "stop"}]_vars

(***************************************************************************)
(* Session controller: recording and processing                            *)
(***************************************************************************)

\* C37: the session is never both recording and processing: isRecording
\* and isProcessing are not true at the same time.
C37_NotRecordingAndProcessing == ~(isRecording /\ isProcessing)

(***************************************************************************)
(* Single-instance coordinator: the PID file of the active instance        *)
(***************************************************************************)

\* C38: while an instance is active the PID file exists and records its
\* process id (no step leads to a state where it does not), and an exiting
\* instance removes the PID file only when the file records its own
\* process id.
C38_PidFileNamesActive ==
  [][\A p \in Invocations :
       /\ cpc'[p] = "active" => pidFile' = <<p>>
       /\ (cpc[p] = "active" /\ cpc'[p] = "exited" /\ pidFile' = <<>>)
            => pidFile = <<p>>]_vars

(***************************************************************************)
(* Audio capture: properties                                               *)
(***************************************************************************)

\* every chunk of the sequence was read from the stream of recording g
AllFrom(chunks, g) == \A i \in 1..Len(chunks) : chunks[i] = g

\* C39: StopRecording returns exactly the bytes captured between the
\* matching StartRecording and itself: at most one reader goroutine is alive
\* at a time, a reader reads only the stream of the recording it was started
\* for, the buffer and the returned bytes hold only chunks of the current
\* recording, and nothing is appended once the buffer has been handed out.
C39_ReturnedBytesAreTheRecording ==
  /\ Cardinality(LiveReaders) <= 1
  /\ \A r \in Recordings :
       au.reader[r].pc \in {"read", "got"} => au.reader[r].on = r
  /\ AllFrom(au.audioBuffer, au.rec)
  /\ au.handed => AllFrom(au.result, au.rec)
  /\ au.handed => au.audioBuffer = <<>>

(***************************************************************************)
(* Listener.Close: properties                                              *)
(***************************************************************************)

\* C40: once Close() has returned the polling loop eventually exits and no
\* press callback is dispatched any more (a process that died of a panic
\* has no loop left); and Close never panics, however often, from whichever
\* goroutine and in whichever listener state it is called.
C40_CloseStopsEveryLoop ==
  /\ [](~cl.panicked)
  /\ [](~cl.late)
  /\ cl.returned ~> (cl.panicked \/ cl.loop \in {"none", "exited"})

====
